---------------------------- MODULE Spec2Model ----------------------------
(***************************************************************************)
(* Model of the invoice backend: store.py (persistence, in-memory          *)
(* backend), main.py (upload pipeline and field extraction) and chat.py    *)
(* (month resolver, month filter, query cascade).                          *)
(*                                                                         *)
(* Representation of Python values                                         *)
(*   str        [t |-> "str",  s |-> <<"a","b">>]   a tuple of characters  *)
(*   None       [t |-> "None"]                                             *)
(*   float/int  [t |-> "num",  n |-> k]    k counts thousandths (amounts)  *)
(*                                         or whole seconds (timestamps)   *)
(*   float nan  [t |-> "nan"]                                              *)
(*   list       [t |-> "list", l |-> <<v1, v2>>]                           *)
(*   datetime   [t |-> "datetime",  s |-> epoch seconds, us |-> microsec]  *)
(*   Firestore Timestamp [t |-> "Timestamp", s |-> epoch seconds]          *)
(*   dict       a function from key strings to values; key presence is     *)
(*              membership in DOMAIN                                       *)
(***************************************************************************)
EXTENDS Integers, Sequences, FiniteSets, TLC

VARIABLES MEM_STORE, now, uuid_ctr, req, resp

vars == <<MEM_STORE, now, uuid_ctr, req, resp>>

-----------------------------------------------------------------------------
(* Python values *)

None == [t |-> "None"]

Str(s) == [t |-> "str", s |-> s]

Num(n) == [t |-> "num", n |-> n]

NaN == [t |-> "nan"]

List(l) == [t |-> "list", l |-> l]

DateTime(s, us) == [t |-> "datetime", s |-> s, us |-> us]

Timestamp(s) == [t |-> "Timestamp", s |-> s]

\* bool(v): None, "", 0, 0.0 and [] are falsy (nan is truthy)
Truthy(v) ==
    CASE v.t = "None" -> FALSE
      [] v.t = "str"  -> v.s # <<>>
      [] v.t = "num"  -> v.n # 0
      [] v.t = "list" -> v.l # <<>>
      [] OTHER        -> TRUE

\* a or b
Or(a, b) == IF Truthy(a) THEN a ELSE b

\* d.get(k)
Get(d, k) == IF k \in DOMAIN d THEN d[k] ELSE None

\* d.setdefault(k, v): assigns only when the key is missing
SetDefault(d, k, v) == IF k \in DOMAIN d THEN d ELSE d @@ (k :> v)

\* d[k] = v
SetItem(d, k, v) == [x \in (DOMAIN d) \cup {k} |-> IF x = k THEN v ELSE d[x]]

-----------------------------------------------------------------------------
(* Characters and strings *)

Digits == <<"0", "1", "2", "3", "4", "5", "6", "7", "8", "9">>

IsDigit(c) == \E i \in 1..10 : Digits[i] = c

DigitVal(c) == (CHOOSE i \in 1..10 : Digits[i] = c) - 1

Upper == <<"A","B","C","D","E","F","G","H","I","J","K","L","M",
           "N","O","P","Q","R","S","T","U","V","W","X","Y","Z">>

LowerLetters == <<"a","b","c","d","e","f","g","h","i","j","k","l","m",
                  "n","o","p","q","r","s","t","u","v","w","x","y","z">>

\* str.lower() on one character
LowerChar(c) ==
    IF \E i \in 1..26 : Upper[i] = c
    THEN LowerLetters[CHOOSE i \in 1..26 : Upper[i] = c]
    ELSE c

\* str.lower()
Lower(s) == [i \in 1..Len(s) |-> LowerChar(s[i])]

\* sub in s, at 1-based position p
MatchAt(s, sub, p) ==
    /\ p >= 1
    /\ p + Len(sub) - 1 <= Len(s)
    /\ \A i \in 1..Len(sub) : s[p + i - 1] = sub[i]

\* sub in s
Contains(s, sub) == \E p \in 1..(Len(s) - Len(sub) + 1) : MatchAt(s, sub, p)

\* int -> decimal digits, n >= 0
RECURSIVE DecStr(_)
DecStr(n) == IF n < 10 THEN <<Digits[n + 1]>>
             ELSE DecStr(n \div 10) \o <<Digits[(n % 10) + 1]>>

\* decimal digits -> int
RECURSIVE ParseNat(_)
ParseNat(s) == IF s = <<>> THEN 0
               ELSE 10 * ParseNat(SubSeq(s, 1, Len(s) - 1)) + DigitVal(s[Len(s)])

AllDigits(s) == s # <<>> /\ \A i \in 1..Len(s) : IsDigit(s[i])

\* zero-padded to width w (as %02d, %04d, %06d)
RECURSIVE Pad(_, _)
Pad(s, w) == IF Len(s) >= w THEN s ELSE Pad(<<"0">> \o s, w)

-----------------------------------------------------------------------------
(* datetime *)

\* days since 1970-01-01 -> [y, m, d]   (proleptic Gregorian calendar)
CivilFromDays(days) ==
    LET z   == days + 719468
        era == z \div 146097
        doe == z - era * 146097
        yoe == (doe - doe \div 1460 + doe \div 36524 - doe \div 146096) \div 365
        doy == doe - (365 * yoe + yoe \div 4 - yoe \div 100)
        mp  == (5 * doy + 2) \div 153
        d   == doy - (153 * mp + 2) \div 5 + 1
        m   == IF mp < 10 THEN mp + 3 ELSE mp - 9
        y   == yoe + era * 400 + (IF m <= 2 THEN 1 ELSE 0)
    IN  [y |-> y, m |-> m, d |-> d]

SecondsPerDay == 24 * 3600

\* datetime.year / .month / .day of a datetime value
DtYear(dt)  == CivilFromDays(dt.s \div SecondsPerDay).y
DtMonth(dt) == CivilFromDays(dt.s \div SecondsPerDay).m
DtDay(dt)   == CivilFromDays(dt.s \div SecondsPerDay).d

\* datetime.isoformat(): YYYY-MM-DDTHH:MM:SS, plus .ffffff when microsecond # 0
IsoFormat(dt) ==
    LET c   == CivilFromDays(dt.s \div SecondsPerDay)
        sod == dt.s % SecondsPerDay
        hh  == sod \div 3600
        mi  == (sod % 3600) \div 60
        ss  == sod % 60
    IN  Pad(DecStr(c.y), 4) \o <<"-">> \o Pad(DecStr(c.m), 2) \o <<"-">>
        \o Pad(DecStr(c.d), 2) \o <<"T">> \o Pad(DecStr(hh), 2) \o <<":">>
        \o Pad(DecStr(mi), 2) \o <<":">> \o Pad(DecStr(ss), 2)
        \o (IF dt.us = 0 THEN <<>> ELSE <<".">> \o Pad(DecStr(dt.us), 6))

\* datetime.utcnow()
UtcNow == DateTime(now.s, now.us)

\* datetime.utcfromtimestamp(float(x)) for a whole number of seconds
UtcFromTimestamp(n) == DateTime(n, 0)

\* store._iso_now()
IsoNow == Str(IsoFormat(UtcNow) \o <<"Z">>)

\* uuid.uuid4().hex : a value never returned before (uuid_ctr counts the calls)
UuidHex(k) == Str(<<"h">> \o DecStr(k))

-----------------------------------------------------------------------------
(* store.py *)

\* whether coerce_legacy(doc) calls uuid.uuid4(): the default argument
\* d.get("id") or uuid.uuid4().hex is evaluated before setdefault is entered
CoerceDrawsUuid(doc) == ~Truthy(Get(doc, "id"))

\* CoerceCreatedAt with a bug: a createdAt that is no timestamp is stamped
\* with the current time, even when it is already an ISO string
CoerceCreatedAt_restamp(d) ==
    LET created == Get(d, "createdAt")
    IN  CASE created.t \in {"Timestamp", "datetime"} ->
               SetItem(d, "createdAt",
                   Str(IsoFormat(DateTime(created.s,
                           IF created.t = "datetime" THEN created.us ELSE 0))
                       \o <<"Z">>))
          [] created.t = "num" ->
               SetItem(d, "createdAt",
                   Str(IsoFormat(DateTime(created.n, 0)) \o <<"Z">>))
          [] OTHER -> SetItem(d, "createdAt", IsoNow)

\* createdAt -> ISO string (the try block of coerce_legacy); every datetime has
\* a timestamp attribute, so datetimes take the first branch as well
CoerceCreatedAt(d) ==
    LET created == Get(d, "createdAt")
    IN  CASE created.t \in {"Timestamp", "datetime"} ->
               SetItem(d, "createdAt",
                   Str(IsoFormat(DateTime(created.s,
                           IF created.t = "datetime" THEN created.us ELSE 0))
                       \o <<"Z">>))
          [] created.t = "num" ->
               SetItem(d, "createdAt",
                   Str(IsoFormat(UtcFromTimestamp(created.n)) \o <<"Z">>))
          [] OTHER -> d      \* str, None, missing; nan raises and is passed over

\* d.setdefault(k, d.get(k2) or default)
SetDefaultOr(d, k, k2, default) == SetDefault(d, k, Or(Get(d, k2), default))

\* id and userId (hex is what uuid.uuid4().hex returns if it is called)
CoerceIds(d, hex) ==
    SetDefaultOr(SetDefaultOr(d, "id", "id", hex), "userId", "userId", Str(<<"a","n","o","n",
          "y","m","o","u","s">>))

\* ocr_text, from rawText if necessary
OcrTextFrom(rt) ==
    IF rt.t = "str" THEN List(<<rt>>)
    ELSE IF rt.t = "list" THEN rt
    ELSE List(<<>>)

CoerceOcrText(d) ==
    IF "ocr_text" \notin DOMAIN d
    THEN SetItem(d, "ocr_text", OcrTextFrom(Get(d, "rawText")))
    ELSE d

CoerceFilename(d) == SetDefaultOr(d, "filename", "sourceName", Str(<<"u","p","l","o","a","d">>))

\* the optional numeric/text fields
OptionalFields == <<"vendor", "date", "amount", "currency", "vat", "fraud_score">>

RECURSIVE CoerceOptional(_, _)
CoerceOptional(d, i) ==
    IF i > Len(OptionalFields) THEN d
    ELSE CoerceOptional(SetDefault(d, OptionalFields[i], None), i + 1)

\* coerce_legacy, its steps in the order of the code
CoerceWith(doc, hex) ==
    CoerceOptional(
        SetDefault(
            CoerceCreatedAt(CoerceFilename(CoerceOcrText(CoerceIds(doc, hex)))),
            "createdAt", IsoNow),
        1)

coerce_legacy(doc) == CoerceWith(doc, UuidHex(uuid_ctr))

-----------------------------------------------------------------------------
(* main.py: amount parsing *)

\* \w of the regex engine: letters, digits, underscore
IsWordChar(c) ==
    \/ IsDigit(c)
    \/ c = "_"
    \/ \E i \in 1..26 : Upper[i] = c \/ LowerLetters[i] = c

\* \s of the regex engine
IsSpace(c) == c \in {" ", "\n", "\t", "\r"}

IsSep(c) == c \in {".", ","}

\* text.replace(old, "") for a one-character old
RemoveChar(s, c) == SelectSeq(s, LAMBDA x : x # c)

\* text.replace(old, new) for one-character old and new
ReplaceChar(s, old, new) == [i \in 1..Len(s) |-> IF s[i] = old THEN new ELSE s[i]]

\* text.count(c)
CountChar(s, c) == Cardinality({i \in 1..Len(s) : s[i] = c})

\* text.rfind(c): 0-based index of the last occurrence, -1 if none
RFind(s, c) ==
    IF \E i \in 1..Len(s) : s[i] = c
    THEN (CHOOSE i \in 1..Len(s) : s[i] = c /\ \A j \in (i + 1)..Len(s) : s[j] # c) - 1
    ELSE -1

\* the alternatives of (?:USD|EUR|GBP|\$|€|£), in the order the regex tries them
CurrencyPrefixes == << <<"U","S","D">>, <<"E","U","R">>, <<"G","B","P">>,
                      <<"$">>, <<"€">>, <<"£">> >>

\* position after the optional currency prefix at p
AfterPrefix(s, p) ==
    IF \E i \in 1..Len(CurrencyPrefixes) : MatchAt(s, CurrencyPrefixes[i], p)
    THEN p + Len(CurrencyPrefixes[
             CHOOSE i \in 1..Len(CurrencyPrefixes) : MatchAt(s, CurrencyPrefixes[i], p)])
    ELSE p

\* position after \s* at p
RECURSIVE AfterSpaces(_, _)
AfterSpaces(s, p) ==
    IF p <= Len(s) /\ IsSpace(s[p]) THEN AfterSpaces(s, p + 1) ELSE p

\* s[p..p+n-1] are n digits
DigitsAt(s, p, n) == p + n - 1 <= Len(s) /\ \A i \in p..(p + n - 1) : IsDigit(s[i])

\* position after [0-9]{1,3} at p (greedy); p itself when no digit is there
AfterLeadDigits(s, p) ==
    IF DigitsAt(s, p, 3) THEN p + 3
    ELSE IF DigitsAt(s, p, 2) THEN p + 2
    ELSE IF DigitsAt(s, p, 1) THEN p + 1
    ELSE p

\* position after (?:[.,][0-9]{3})* at p (greedy)
RECURSIVE AfterGroups(_, _)
AfterGroups(s, p) ==
    IF p <= Len(s) /\ IsSep(s[p]) /\ DigitsAt(s, p + 1, 3)
    THEN AfterGroups(s, p + 4)
    ELSE p

\* position after (?:[.,][0-9]{2})? at p
AfterFraction(s, p) ==
    IF p <= Len(s) /\ IsSep(s[p]) /\ DigitsAt(s, p + 1, 2) THEN p + 3 ELSE p

\* AMOUNT_PAT tried at position p: [ok, from, to] with s[from..to-1] the group.
\* Every part after the leading digits may match empty, so the greedy choice
\* is the match the engine returns.
AmountMatchAt(s, p) ==
    LET g == AfterSpaces(s, AfterPrefix(s, p))
        e == AfterFraction(s, AfterGroups(s, AfterLeadDigits(s, g)))
    IN  [ok   |-> /\ (p = 1 \/ ~IsWordChar(s[p - 1]))      \* (?<!\w)
                  /\ DigitsAt(s, g, 1),
         from |-> g,
         to   |-> e]

\* the least element of a non-empty set of integers
Least(S) == CHOOSE x \in S : \A z \in S : x <= z

\* the positions at which AMOUNT_PAT matches
AmountStarts(s) == {x \in 1..Len(s) : AmountMatchAt(s, x).ok}

\* AMOUNT_PAT.finditer(s): the groups of the successive matches from p on;
\* the search resumes where the last match ended
RECURSIVE AmountFrom(_, _, _)
AmountAfter(s, starts, m) ==
    <<SubSeq(s, m.from, m.to - 1)>> \o AmountFrom(s, starts, m.to)

AmountFrom(s, starts, p) ==
    IF \E x \in starts : x >= p
    THEN AmountAfter(s, starts, AmountMatchAt(s, Least({x \in starts : x >= p})))
    ELSE <<>>

AmountFindAll(s, p) == AmountFrom(s, AmountStarts(s), p)

\* the separator normalisation of parse_amount (1.234,56 against 1,234.56)
NormalizeSeparators(raw) ==
    IF CountChar(raw, ",") > 0 /\ CountChar(raw, ".") > 0
    THEN IF RFind(raw, ",") > RFind(raw, ".")
         THEN ReplaceChar(RemoveChar(raw, "."), ",", ".")
         ELSE RemoveChar(raw, ",")
    ELSE ReplaceChar(raw, ",", ".")

\* float(raw) for digits and dots: thousandths, or -1 when float() raises
\* ValueError (more than one dot).  A fraction here has 2 or 3 digits.
ParseFloat(raw) ==
    IF CountChar(raw, ".") = 0 THEN 1000 * ParseNat(raw)
    ELSE IF CountChar(raw, ".") = 1
    THEN LET d    == RFind(raw, ".") + 1
             frac == SubSeq(raw, d + 1, Len(raw))
         IN  1000 * ParseNat(SubSeq(raw, 1, d - 1))
             + ParseNat(frac) * (IF Len(frac) = 2 THEN 10 ELSE 1)
    ELSE -1

\* max of a non-empty sequence of integers
SeqMax(q) == CHOOSE x \in {q[i] : i \in 1..Len(q)} : \A i \in 1..Len(q) : q[i] <= x

\* the candidates list of parse_amount
AmountCandidates(text) ==
    LET compact == RemoveChar(text, " ")
        raws    == AmountFindAll(compact, 1)
        vals    == [i \in 1..Len(raws) |-> ParseFloat(NormalizeSeparators(raws[i]))]
    IN  SelectSeq(vals, LAMBDA v : v >= 0)

parse_amount(text) ==
    LET candidates == AmountCandidates(text)
    IN  IF candidates # <<>> THEN Num(SeqMax(candidates)) ELSE None

-----------------------------------------------------------------------------
(* main.py: fraud score; chat.py: risky.  Floats are counted in thousandths: *)
(* the sums below are multiples of 0.1, and round(x, 2) returns the double   *)
(* nearest to the two-decimal value, which is the double of the literal.     *)

Min(a, b) == IF a <= b THEN a ELSE b

\* round(x, 2) for x in thousandths, result in thousandths; a tie goes to the
\* even hundredth
Round2(n) ==
    LET h == n \div 10
        r == n % 10
    IN  10 * (IF r > 5 \/ (r = 5 /\ h % 2 = 1) THEN h + 1 ELSE h)

red_flags ==
    << <<"p","a","y"," ","b","y"," ","g","i","f","t"," ","c","a","r","d">>,
       <<"u","r","g","e","n","t">>,
       <<"w","i","r","e"," ","i","m","m","e","d","i","a","t","e","l","y">>,
       <<"o","v","e","r","d","u","e"," ","f","e","e"," ","5","0","%">> >>

\* score added per red flag found: 0.2
FlagWeight == 200

\* score added for a large amount: 0.3
LargeAmountWeight == 300

\* the amount above which LargeAmountWeight is added: 10000
LargeAmount == 10000000

\* fraud_score that compares the phrases with the text as written
fraud_score_case_sensitive(text, amount) ==
    LET k     == Cardinality({i \in 1..Len(red_flags) : Contains(text, red_flags[i])})
        score == k * FlagWeight
                 + (IF amount.t = "num" /\ amount.n > LargeAmount
                    THEN LargeAmountWeight ELSE 0)
    IN  Num(Round2(Min(score, 1000)))

fraud_score(text, amount) ==
    LET k     == Cardinality({i \in 1..Len(red_flags) :
                                  Contains(Lower(text), red_flags[i])})
        score == k * FlagWeight
                 + (IF amount.t = "num" /\ amount.n > LargeAmount
                    THEN LargeAmountWeight ELSE 0)
    IN  Num(Round2(Min(score, 1000)))

\* the fraud score from which an invoice is risky: 0.7
RiskyThreshold == 700

\* chat.risky
risky(invs) ==
    SelectSeq(invs, LAMBDA d : Or(Get(d, "fraud_score"), Num(0)).n >= RiskyThreshold)

-----------------------------------------------------------------------------
(* chat.py: month resolver *)

\* a (year, month) tuple
YearMonth(y, m) == [t |-> "tuple", y |-> y, m |-> m]

\* calendar.month_name[1..12]
month_name ==
    << <<"J","a","n","u","a","r","y">>, <<"F","e","b","r","u","a","r","y">>,
       <<"M","a","r","c","h">>, <<"A","p","r","i","l">>, <<"M","a","y">>,
       <<"J","u","n","e">>, <<"J","u","l","y">>, <<"A","u","g","u","s","t">>,
       <<"S","e","p","t","e","m","b","e","r">>, <<"O","c","t","o","b","e","r">>,
       <<"N","o","v","e","m","b","e","r">>, <<"D","e","c","e","m","b","e","r">> >>

\* the keys of MONTHS_MAP_EN in iteration order; the value of key i is i
MONTHS_MAP_EN == [i \in 1..12 |-> Lower(month_name[i])]

\* the keys of ABBR_MAP_EN in iteration order: calendar.month_abbr, lower-cased
ABBR_MAP_EN == [i \in 1..12 |-> SubSeq(Lower(month_name[i]), 1, 3)]

\* re.search(name\s+(\d{4}), q): the year of the leftmost match, or -1
YearAfter(q, name) ==
    LET hit(p) == /\ MatchAt(q, name, p)
                  /\ AfterSpaces(q, p + Len(name)) > p + Len(name)
                  /\ DigitsAt(q, AfterSpaces(q, p + Len(name)), 4)
        P == {p \in 1..Len(q) : hit(p)}
    IN  IF P = {} THEN -1
        ELSE LET p == CHOOSE x \in P : \A z \in P : x <= z
                 g == AfterSpaces(q, p + Len(name))
             IN  ParseNat(SubSeq(q, g, g + 3))

\* the first key of the map (in iteration order) found in q, or 0
FirstNameIn(map, q) ==
    IF \E i \in 1..12 : Contains(q, map[i])
    THEN Least({i \in 1..12 : Contains(q, map[i])})
    ELSE 0

\* (now.replace(day=1) - timedelta(days=1)) as [y, m, d]
LastDayOfPreviousMonth(dt) ==
    CivilFromDays(dt.s \div SecondsPerDay - (DtDay(dt) - 1) - 1)

\* parse_month where "last month" is the month number minus one
parse_month_no_wrap(query) ==
    LET q == Lower(query)
        n == UtcNow
    IN  IF Contains(q, <<"t","h","i","s"," ","m","o","n","t","h">>)
        THEN YearMonth(DtYear(n), DtMonth(n))
        ELSE IF Contains(q, <<"l","a","s","t"," ","m","o","n","t","h">>)
        THEN YearMonth(DtYear(n), DtMonth(n) - 1)
        ELSE IF FirstNameIn(MONTHS_MAP_EN, q) # 0
        THEN LET mi == FirstNameIn(MONTHS_MAP_EN, q)
                 y  == YearAfter(q, MONTHS_MAP_EN[mi])
             IN  YearMonth(IF y >= 0 THEN y ELSE DtYear(n), mi)
        ELSE IF FirstNameIn(ABBR_MAP_EN, q) # 0
        THEN LET mi == FirstNameIn(ABBR_MAP_EN, q)
                 y  == YearAfter(q, ABBR_MAP_EN[mi])
             IN  YearMonth(IF y >= 0 THEN y ELSE DtYear(n), mi)
        ELSE None

parse_month(query) ==
    LET q == Lower(query)
        n == UtcNow
    IN  IF Contains(q, <<"t","h","i","s"," ","m","o","n","t","h">>)
        THEN YearMonth(DtYear(n), DtMonth(n))
        ELSE IF Contains(q, <<"l","a","s","t"," ","m","o","n","t","h">>)
        THEN LET prev == LastDayOfPreviousMonth(n)
             IN  YearMonth(prev.y, prev.m)
        ELSE IF FirstNameIn(MONTHS_MAP_EN, q) # 0
        THEN LET mi == FirstNameIn(MONTHS_MAP_EN, q)
                 y  == YearAfter(q, MONTHS_MAP_EN[mi])
             IN  YearMonth(IF y >= 0 THEN y ELSE DtYear(n), mi)
        ELSE IF FirstNameIn(ABBR_MAP_EN, q) # 0
        THEN LET mi == FirstNameIn(ABBR_MAP_EN, q)
                 y  == YearAfter(q, ABBR_MAP_EN[mi])
             IN  YearMonth(IF y >= 0 THEN y ELSE DtYear(n), mi)
        ELSE None

-----------------------------------------------------------------------------
(* chat.py: month filter *)

\* str.strip()
RECURSIVE LStrip(_)
LStrip(s) == IF s # <<>> /\ IsSpace(Head(s)) THEN LStrip(Tail(s)) ELSE s

RECURSIVE RStrip(_)
RStrip(s) ==
    IF s # <<>> /\ IsSpace(s[Len(s)]) THEN RStrip(SubSeq(s, 1, Len(s) - 1)) ELSE s

Strip(s) == RStrip(LStrip(s))

\* int(s) for a str: [ok, v]; ok is FALSE where int() raises ValueError.
\* Surrounding whitespace and one sign are accepted (digit-group underscores,
\* which int() accepts too, are not written in the model's strings).
IntOf(s) ==
    LET b      == Strip(s)
        signed == b # <<>> /\ Head(b) \in {"+", "-"}
        digits == IF signed THEN Tail(b) ELSE b
    IN  [ok |-> AllDigits(digits),
         v  |-> IF AllDigits(digits)
                THEN (IF signed /\ Head(b) = "-" THEN 0 - ParseNat(digits)
                      ELSE ParseNat(digits))
                ELSE 0]

IsDateSep(c) == c \in {".", "/", "-"}

\* re.split(r"[./-]", s)
RECURSIVE SplitDate(_)
SplitDate(s) ==
    IF \E i \in 1..Len(s) : IsDateSep(s[i])
    THEN LET i == CHOOSE k \in 1..Len(s) :
                      IsDateSep(s[k]) /\ \A j \in 1..(k - 1) : ~IsDateSep(s[j])
         IN  <<SubSeq(s, 1, i - 1)>> \o SplitDate(SubSeq(s, i + 1, Len(s)))
    ELSE <<s>>

\* number of digits at the start of s[p..], at most 3 counted
DigitRun(s, p) ==
    IF DigitsAt(s, p, 3) THEN 3
    ELSE IF DigitsAt(s, p, 2) THEN 2
    ELSE IF DigitsAt(s, p, 1) THEN 1
    ELSE 0

\* re.match(r"\d{1,2}[./-]\d{1,2}[./-]\d{2,4}", s)
DateShape(s) ==
    LET r1 == DigitRun(s, 1)
        p2 == r1 + 2
        r2 == DigitRun(s, p2)
        p3 == p2 + r2 + 1
    IN  /\ r1 \in {1, 2}
        /\ r1 + 1 <= Len(s) /\ IsDateSep(s[r1 + 1])
        /\ r2 \in {1, 2}
        /\ p2 + r2 <= Len(s) /\ IsDateSep(s[p2 + r2])
        /\ DigitsAt(s, p3, 2)

\* the year part as written
DateYear_as_written(yy) == yy

\* a two-digit year is read as 20YY
DateYear(yy) == IF Len(yy) = 2 THEN <<"2", "0">> \o yy ELSE yy

\* the date branch of filter_by_month appends d (a raise leaves it FALSE)
DateHit(d, y, m) ==
    LET dt == Get(d, "date")
    IN  /\ Truthy(dt)
        /\ dt.t = "str"
        /\ DateShape(dt.s)
        /\ LET parts == SplitDate(dt.s)
               yy    == DateYear(parts[3])
           IN  /\ IntOf(yy).ok /\ IntOf(yy).v = y
               /\ IntOf(parts[2]).ok /\ IntOf(parts[2]).v = m

\* s[a:b] with 0 <= a <= b
Slice(s, a, b) == SubSeq(s, a + 1, Min(b, Len(s)))

\* the createdAt branch of filter_by_month appends d
CreatedAtHit(d, y, m) ==
    LET ca == Get(d, "createdAt")
    IN  /\ Truthy(ca)
        /\ ca.t = "str"
        /\ IntOf(Slice(ca.s, 0, 4)).ok /\ IntOf(Slice(ca.s, 0, 4)).v = y
        /\ IntOf(Slice(ca.s, 5, 7)).ok /\ IntOf(Slice(ca.s, 5, 7)).v = m

\* the loop without its continue: a record matched by its date is tested on
\* createdAt as well
RECURSIVE filter_by_month_no_continue(_, _, _)
filter_by_month_no_continue(invs, y, m) ==
    IF invs = <<>> THEN <<>>
    ELSE (IF DateHit(Head(invs), y, m) THEN <<Head(invs)>> ELSE <<>>)
         \o (IF CreatedAtHit(Head(invs), y, m) THEN <<Head(invs)>> ELSE <<>>)
         \o filter_by_month_no_continue(Tail(invs), y, m)

\* a record matched by its date is appended and the loop continues with the
\* next record, so no record is appended twice
filter_by_month(invs, y, m) ==
    SelectSeq(invs, LAMBDA d : DateHit(d, y, m) \/ CreatedAtHit(d, y, m))

-----------------------------------------------------------------------------
(* main.py: the other field extractors *)

\* the first element of seq (in order) for which Test holds, or none
FirstAt(seq, hits, none) == IF hits = {} THEN none ELSE seq[Least(hits)]

FirstWhere(seq, Test(_), none) ==
    FirstAt(seq, {i \in 1..Len(seq) : Test(seq[i])}, none)

\* CURRENCY_SIGNS in iteration order
CURRENCY_SIGNS ==
    << [sign |-> <<"€">>, cur |-> <<"E","U","R">>],
       [sign |-> <<"£">>, cur |-> <<"G","B","P">>],
       [sign |-> <<"$">>, cur |-> <<"U","S","D">>] >>

\* the codes looked for when no sign is found
CurrencyCodes == << <<"E","U","R">>, <<"U","S","D">>, <<"G","B","P">>, <<"T","R","Y">> >>

detect_currency(text) ==
    LET bySign == FirstWhere(CURRENCY_SIGNS, LAMBDA e : Contains(text, e.sign), None)
    IN  IF bySign # None THEN Str(bySign.cur)
        ELSE LET byCode == FirstWhere(CurrencyCodes, LAMBDA c : Contains(text, c), <<>>)
             IN  IF byCode # <<>> THEN Str(byCode) ELSE None

\* str.splitlines() for the line ends \n and \r (an empty line between \r and
\* \n makes no difference to pick_vendor, which skips blank lines)
RECURSIVE SplitLines(_)
SplitLines(s) ==
    IF s = <<>> THEN <<>>
    ELSE IF \E i \in 1..Len(s) : s[i] \in {"\n", "\r"}
    THEN LET i == CHOOSE k \in 1..Len(s) :
                      s[k] \in {"\n", "\r"} /\ \A j \in 1..(k - 1) : s[j] \notin {"\n", "\r"}
         IN  <<SubSeq(s, 1, i - 1)>> \o SplitLines(SubSeq(s, i + 1, Len(s)))
    ELSE <<s>>

VendorKeywords ==
    << <<"l","t","d">>, <<"l","i","m","i","t","e","d">>, <<"i","n","c">>,
       <<"g","m","b","h">>, <<"c","o","m","p","a","n","y">>, <<"c","o",".">> >>

pick_vendor(text) ==
    LET lines    == SplitLines(text)
        stripped == [i \in 1..Len(lines) |-> Strip(lines[i])]
        nonblank == SelectSeq(stripped, LAMBDA l : l # <<>>)
        company  == FirstWhere(nonblank,
                        LAMBDA l : \E k \in 1..Len(VendorKeywords) :
                                       Contains(Lower(l), VendorKeywords[k]),
                        <<>>)
    IN  IF company # <<>> THEN Str(company)
        ELSE IF nonblank # <<>> THEN Str(nonblank[1])
        ELSE None

\* number of digits from p on, at most 5 counted
RECURSIVE RunLen(_, _, _)
RunLen(s, p, counted) ==
    IF counted < 5 /\ p <= Len(s) /\ IsDigit(s[p]) THEN RunLen(s, p + 1, counted + 1)
    ELSE counted

\* \b after the last digit of a match ending before position e
BoundaryAt(s, e) == e > Len(s) \/ ~IsWordChar(s[e])

\* DATE_PAT tried at p: the position after the match, or 0.  A run of digits
\* must have the length the pattern asks for, since a separator or a word
\* boundary has to follow it.
DateMatchAt(s, p) ==
    LET r1 == RunLen(s, p, 0)
        p2 == p + r1 + 1
        r2 == RunLen(s, p2, 0)
        p3 == p2 + r2 + 1
        r3 == RunLen(s, p3, 0)
        seps == /\ p + r1 <= Len(s) /\ IsDateSep(s[p + r1])
                /\ p2 + r2 <= Len(s) /\ IsDateSep(s[p2 + r2])
        start == p = 1 \/ ~IsWordChar(s[p - 1])
    IN  IF start /\ seps /\ r2 \in {1, 2} /\ BoundaryAt(s, p3 + r3)
           /\ \/ (r1 \in {1, 2} /\ r3 \in {2, 3, 4})     \* D.M.Y
              \/ (r1 = 4 /\ r3 \in {1, 2})               \* Y.M.D
        THEN p3 + r3
        ELSE 0

DateFound(s, p) == Str(SubSeq(s, p, DateMatchAt(s, p) - 1))

DateFirst(s, starts) == IF starts = {} THEN None ELSE DateFound(s, Least(starts))

\* m = DATE_PAT.search(merged); m.group(1) if m else None
DateSearch(s) == DateFirst(s, {p \in 1..Len(s) : DateMatchAt(s, p) # 0})

\* (\d{1,2}(?:\.\d)?)\s*% tried at p with n leading digits, with or without
\* the fraction: the percentage in tenths, or -1
PercentAt(s, p, n, frac) ==
    LET q == p + n
        e == IF frac THEN q + 2 ELSE q
        a == AfterSpaces(s, e)
    IN  IF /\ DigitsAt(s, p, n)
           /\ frac => (q + 1 <= Len(s) /\ s[q] = "." /\ IsDigit(s[q + 1]))
           /\ a <= Len(s) /\ s[a] = "%"
        THEN 10 * ParseNat(SubSeq(s, p, q - 1))
             + (IF frac THEN DigitVal(s[q + 1]) ELSE 0)
        ELSE -1

\* the alternatives at one position in the order the engine tries them
PercentMatchAt(s, p) ==
    LET tries == << PercentAt(s, p, 2, TRUE), PercentAt(s, p, 2, FALSE),
                    PercentAt(s, p, 1, TRUE), PercentAt(s, p, 1, FALSE) >>
    IN  FirstWhere(tries, LAMBDA v : v >= 0, -1)

PercentFirst(t, starts) ==
    IF starts = {} THEN -1 ELSE PercentMatchAt(t, Least(starts))

\* re.search of the percentage in t: tenths of a percent, or -1
PercentSearch(t) == PercentFirst(t, {p \in 1..Len(t) : PercentMatchAt(t, p) >= 0})

\* the default VAT rate, 0.20, in thousandths
DefaultVatRate == 200

\* round(amount * rate, 2): amount in thousandths, rate in thousandths, result
\* in thousandths; a tie goes to the even hundredth
RoundProduct2(amount, rate) ==
    LET a    == amount \div 10000
        b    == amount % 10000
        h    == (a * rate) + ((b * rate) \div 10000)
        r    == (b * rate) % 10000
    IN  10 * (IF r > 5000 \/ (r = 5000 /\ h % 2 = 1) THEN h + 1 ELSE h)

vat_guess(currency, text, amount) ==
    LET t == Lower(text)
        triggered == \/ Contains(t, <<"v","a","t">>)
                     \/ Contains(t, <<"t","a","x">>)
                     \/ currency = Str(<<"E","U","R">>)
        rate == IF PercentSearch(t) >= 0 THEN PercentSearch(t) ELSE DefaultVatRate
    IN  IF amount # None /\ triggered THEN Num(RoundProduct2(amount.n, rate)) ELSE None

DocTypeKeywords ==
    << [type |-> <<"r","e","c","u","r","r","i","n","g">>,
        words |-> { <<"s","u","b","s","c","r","i","p","t","i","o","n">>,
                    <<"m","o","n","t","h","l","y">>,
                    <<"r","e","c","u","r","r","i","n","g">> }],
       [type |-> <<"s","e","r","v","i","c","e">>,
        words |-> { <<"c","o","n","s","u","l","t","i","n","g">>,
                    <<"s","e","r","v","i","c","e">>,
                    <<"m","a","i","n","t","e","n","a","n","c","e">> }],
       [type |-> <<"p","r","o","d","u","c","t">>,
        words |-> { <<"i","t","e","m">>, <<"p","r","o","d","u","c","t">>,
                    <<"g","o","o","d","s">>, <<"p","c","s">>, <<"s","k","u">>,
                    <<"u","n","i","t"," ","p","r","i","c","e">> }] >>

classify_doc_type(text) ==
    LET t   == Lower(text)
        hit == FirstWhere(DocTypeKeywords,
                   LAMBDA e : \E w \in e.words : Contains(t, w), None)
    IN  IF hit # None THEN Str(hit.type) ELSE Str(<<"o","t","h","e","r">>)

\* "\n".join(texts)
RECURSIVE JoinLines(_)
JoinLines(texts) ==
    IF texts = <<>> THEN <<>>
    ELSE IF Len(texts) = 1 THEN texts[1]
    ELSE texts[1] \o <<"\n">> \o JoinLines(Tail(texts))

-----------------------------------------------------------------------------
(* store.py: the in-memory store.  MEM_STORE is a dict; it is kept as the *)
(* sequence of its entries [k, v] in insertion order.                     *)

\* a Python dict (a function from keys), as opposed to any other value
IsDict(v) == "t" \notin DOMAIN v

\* MEM_STORE[k] = v on a dict: a present key keeps its place
StorePut(store, k, v) ==
    IF \E i \in 1..Len(store) : store[i].k = k
    THEN [i \in 1..Len(store) |-> IF store[i].k = k THEN [k |-> k, v |-> v] ELSE store[i]]
    ELSE Append(store, [k |-> k, v |-> v])

\* MEM_STORE.get(k)
StoreGet(store, k) ==
    IF \E i \in 1..Len(store) : store[i].k = k
    THEN store[CHOOSE i \in 1..Len(store) : store[i].k = k].v
    ELSE None

\* the record is kept under the id of its user
save_invoice_per_user(doc) ==
    LET d == coerce_legacy(doc)
    IN  StorePut(MEM_STORE, d["userId"], d)

\* the value of MEM_STORE after save_invoice(doc)
save_invoice(doc) ==
    LET d == coerce_legacy(doc)
    IN  StorePut(MEM_STORE, d["id"], d)

get_invoice(invoice_id) == StoreGet(MEM_STORE, invoice_id)

\* the printable ASCII characters from code 32 to code 126, in order (the
\* quote, the backslash and the backtick, which no text here holds, by name)
Ascii ==
    << " ", "!", "quote", "#", "$", "%", "&", "'", "(", ")", "*", "+", ",", "-", ".", "/",
       "0", "1", "2", "3", "4", "5", "6", "7", "8", "9", ":", ";", "<", "=", ">", "?",
       "@", "A", "B", "C", "D", "E", "F", "G", "H", "I", "J", "K", "L", "M", "N", "O",
       "P", "Q", "R", "S", "T", "U", "V", "W", "X", "Y", "Z", "[", "backslash", "]", "^", "_",
       "backtick", "a", "b", "c", "d", "e", "f", "g", "h", "i", "j", "k", "l", "m", "n", "o",
       "p", "q", "r", "s", "t", "u", "v", "w", "x", "y", "z", "{", "|", "}", "~" >>

\* ord(c)
Ord(c) ==
    CASE c = "\t" -> 9
      [] c = "\n" -> 10
      [] c = "\r" -> 13
      [] c = "£"  -> 163
      [] c = "€"  -> 8364
      [] \E i \in 1..Len(Ascii) : Ascii[i] = c ->
             31 + (CHOOSE i \in 1..Len(Ascii) : Ascii[i] = c)

\* a < b for two str values, as Python compares them
StrLess(a, b) ==
    IF \E i \in 1..Min(Len(a), Len(b)) : a[i] # b[i]
    THEN LET i == CHOOSE k \in 1..Min(Len(a), Len(b)) :
                      a[k] # b[k] /\ \A j \in 1..(k - 1) : a[j] = b[j]
         IN  Ord(a[i]) < Ord(b[i])
    ELSE Len(a) < Len(b)

\* repr of a float counted in thousandths, for the values met here
FloatRepr(n) ==
    LET f == n % 1000
        frac == IF f % 100 = 0 THEN DecStr(f \div 100)
                ELSE IF f % 10 = 0 THEN Pad(DecStr(f \div 10), 2)
                ELSE Pad(DecStr(f), 3)
    IN  DecStr(n \div 1000) \o <<".">> \o frac

\* str(x.get("createdAt") or ""), the sort key
SortKey(x) ==
    LET c == Or(Get(x, "createdAt"), Str(<<>>))
    IN  CASE c.t = "str" -> c.s
          [] c.t = "num" -> FloatRepr(1000 * c.n)

UserMatches(user_id, v) == ~Truthy(user_id) \/ Get(v, "userId") = user_id

\* the loop over MEM_STORE.values(): dicts of the user, and the dicts found
\* inside list values
RECURSIVE Harvest(_, _)
Harvest(store, user_id) ==
    IF store = <<>> THEN <<>>
    ELSE LET v == Head(store).v
             found == IF IsDict(v)
                      THEN IF UserMatches(user_id, v) THEN <<v>> ELSE <<>>
                      ELSE IF v.t = "list"
                      THEN SelectSeq(v.l, LAMBDA item :
                               IsDict(item) /\ UserMatches(user_id, item))
                      ELSE <<>>
         IN  found \o Harvest(Tail(store), user_id)

\* list.sort(key=SortKey, reverse=True): descending, and records with equal
\* keys keep the order they had
RECURSIVE SortNewestFirst(_)
SortNewestFirst(results) ==
    IF results = <<>> THEN <<>>
    ELSE LET front  == SortNewestFirst(SubSeq(results, 1, Len(results) - 1))
             x      == results[Len(results)]
             before == Cardinality({i \in 1..Len(front) :
                           ~StrLess(SortKey(front[i]), SortKey(x))})
         IN  SubSeq(front, 1, before) \o <<x>> \o SubSeq(front, before + 1, Len(front))

\* the in-memory branch of list_invoices_for_user, for a store
ListFrom(store, user_id) == SortNewestFirst(Harvest(store, user_id))

list_invoices_for_user(user_id) == ListFrom(MEM_STORE, user_id)

-----------------------------------------------------------------------------
(* chat.py: totals, CSV, the language model step, the cascade *)

RECURSIVE SumField(_, _)
SumField(invs, k) ==
    IF invs = <<>> THEN 0
    ELSE Or(Get(Head(invs), k), Num(0)).n + SumField(Tail(invs), k)

sum_amount(invs) == Round2(SumField(invs, "amount"))

sum_vat(invs) == Round2(SumField(invs, "vat"))

\* f"{v or ''}" for a str or a float
Shown(v) ==
    IF ~Truthy(v) THEN <<>>
    ELSE CASE v.t = "str" -> v.s
           [] v.t = "num" -> FloatRepr(v.n)

CsvHeader == <<"d","a","t","e",",","v","e","n","d","o","r",",","c","u","r","r","e","n","c",
      "y",",","a","m","o","u","n","t",",","v","a","t",",","f","i","l","e","n","a","m","e",
      "\n">>

CsvRow(d) ==
    LET vendor == ReplaceChar(Or(Get(d, "vendor"), Str(<<>>)).s, ",", " ")
    IN  Shown(Get(d, "date")) \o <<",">> \o vendor \o <<",">>
        \o Shown(Get(d, "currency")) \o <<",">>
        \o Shown(Get(d, "amount")) \o <<",">> \o Shown(Get(d, "vat")) \o <<",">>
        \o Shown(Get(d, "filename")) \o <<"\n">>

RECURSIVE CsvRows(_)
CsvRows(invs) == IF invs = <<>> THEN <<>> ELSE CsvRow(Head(invs)) \o CsvRows(Tail(invs))

build_tax_csv(invs) == CsvHeader \o CsvRows(invs)

\* text.encode("utf-8") as a sequence of byte values
Utf8Char(c) ==
    IF c < 128 THEN <<c>>
    ELSE IF c < 2048 THEN <<192 + (c \div 64), 128 + (c % 64)>>
    ELSE <<224 + (c \div 4096), 128 + ((c \div 64) % 64), 128 + (c % 64)>>

RECURSIVE Utf8(_)
Utf8(s) ==
    IF s = <<>> THEN <<>>
    ELSE IF Len(s) = 1 THEN Utf8Char(Ord(s[1]))
    ELSE Utf8(SubSeq(s, 1, Len(s) \div 2)) \o Utf8(SubSeq(s, (Len(s) \div 2) + 1, Len(s)))

B64Alphabet ==
    Upper \o LowerLetters
    \o <<"0", "1", "2", "3", "4", "5", "6", "7", "8", "9", "+", "/">>

\* the byte at position i, 0 after the end
ByteAt(b, i) == IF i <= Len(b) THEN b[i] ELSE 0

\* the k-th character (1..4) of the group that encodes the bytes from i on
B64Char(b, i, k) ==
    CASE k = 1 -> B64Alphabet[1 + (ByteAt(b, i) \div 4)]
      [] k = 2 -> B64Alphabet[1 + ((ByteAt(b, i) % 4) * 16) + (ByteAt(b, i + 1) \div 16)]
      [] k = 3 -> IF i + 1 <= Len(b)
                  THEN B64Alphabet[1 + ((ByteAt(b, i + 1) % 16) * 4)
                                     + (ByteAt(b, i + 2) \div 64)]
                  ELSE "="
      [] k = 4 -> IF i + 2 <= Len(b)
                  THEN B64Alphabet[1 + (ByteAt(b, i + 2) % 64)]
                  ELSE "="

\* base64.b64encode of a sequence of bytes, as text
B64Encode(b) ==
    [j \in 1..(4 * ((Len(b) + 2) \div 3)) |->
        B64Char(b, 3 * ((j - 1) \div 4) + 1, ((j - 1) % 4) + 1)]

\* the digits of k with a comma between groups of three
RECURSIVE GroupThousands(_)
GroupThousands(k) ==
    IF k < 1000 THEN DecStr(k)
    ELSE GroupThousands(k \div 1000) \o <<",">> \o Pad(DecStr(k % 1000), 3)

\* f"{x:,.2f}" for a float that round(..., 2) returned, counted in thousandths
Money(n) ==
    GroupThousands(n \div 1000) \o <<".">> \o Pad(DecStr((n % 1000) \div 10), 2)

\* an exception leaving a call
Raise == [t |-> "raise"]

\* llm_answer with the try block removed: a failure of the request leaves
\* the function as an exception
llm_answer_unguarded(question, context, reply) ==
    IF ~reply.configured THEN None
    ELSE IF reply.kind = "ok" /\ reply.content.t = "str"
    THEN Str(Strip(reply.content.s))
    ELSE Raise

\* reply is what the outside world does with the request: configured says
\* whether OPENROUTER_API_KEY is set; kind is "ok" when the post returned a
\* body with choices[0].message.content, which is reply.content, "raises"
\* when the post or resp.json() raised, "malformed" when the path is missing
llm_answer(question, context, reply) ==
    IF ~reply.configured THEN None
    ELSE IF reply.kind = "ok" /\ reply.content.t = "str"
    THEN Str(Strip(reply.content.s))
    ELSE None

HelpMessage ==
    <<"I"," ","c","a","n"," ","a","n","s","w","e","r",":"," ","'","W","h","a","t"," ","i",
          "n","v","o","i","c","e","s"," ","a","r","e"," ","r","i","s","k","y"," ","t","h",
          "i","s"," ","m","o","n","t","h","'",","," ","'","T","o","t","a","l"," ","s","p",
          "e","n","t"," ","i","n"," ","<","M","o","n","t","h",">","'",","," ","o","r"," ",
          "'","E","x","p","o","r","t"," ","m","y"," ","t","a","x"," ","s","u","m","m","a",
          "r","y","'",".">>

\* [coerce_legacy(d) for d in docs], the k-th call of uuid4 returning UuidHex(k)
RECURSIVE CoerceEach(_, _)
CoerceEach(docs, k) ==
    IF docs = <<>> THEN <<>>
    ELSE <<CoerceWith(Head(docs), UuidHex(k))>>
         \o CoerceEach(Tail(docs), IF CoerceDrawsUuid(Head(docs)) THEN k + 1 ELSE k)

\* the calls of uuid4 made by [coerce_legacy(d) for d in docs]
UuidDraws(docs) == Len(SelectSeq(docs, CoerceDrawsUuid))

InvoiceOutFields ==
    {"id", "userId", "filename", "ocr_text", "vendor", "date", "amount", "currency",
     "vat", "fraud_score", "createdAt", "language", "docType"}

\* InvoiceOut(**d) validates: the required fields are str, the others have
\* their type or are None
InvoiceOutValid(d) ==
    /\ \A k \in {"id", "userId", "filename"} : Get(d, k).t = "str"
    /\ "ocr_text" \in DOMAIN d =>
           /\ d["ocr_text"].t = "list"
           /\ \A i \in 1..Len(d["ocr_text"].l) : d["ocr_text"].l[i].t = "str"
    /\ \A k \in {"vendor", "date", "currency", "createdAt", "language", "docType"} :
           Get(d, k).t \in {"None", "str"}
    /\ \A k \in {"amount", "vat", "fraud_score"} : Get(d, k).t \in {"None", "num", "nan"}

InvoiceOut(d) ==
    [k \in InvoiceOutFields |->
        IF k = "ocr_text" /\ k \notin DOMAIN d THEN List(<<>>) ELSE Get(d, k)]

ChatResponse(answer, invoices, csv_base64) ==
    [status |-> 200, answer |-> answer, invoices |-> invoices, csv_base64 |-> csv_base64]

\* an exception that leaves a route: the framework answers 500
InternalError == [status |-> 500]

\* "export" in ql or "csv" in ql or ... (line 222)
ExportWords ==
    { <<"e","x","p","o","r","t">>, <<"c","s","v">>, <<"t","a","x">>, <<"v","a","t">>, <<"s",
          "u","m","m","a","r","y">>, <<"r","e","p","o","r","t">> }

\* parse_month(q) or (datetime.utcnow().year, datetime.utcnow().month)
MonthOrNow(ym) == IF ym # None THEN ym ELSE YearMonth(DtYear(UtcNow), DtMonth(UtcNow))

RiskyResponse(y, m, rsk) ==
    IF \A i \in 1..Len(rsk) : InvoiceOutValid(rsk[i])
    THEN ChatResponse(
             Str(month_name[m] \o <<" ">> \o DecStr(y)
                 \o <<" ","r","i","s","k","y"," ","i","n","v","o","i","c","e","s",":"," ">> \o DecStr(Len(rsk))),
             List([i \in 1..Len(rsk) |-> InvoiceOut(rsk[i])]),
             None)
    ELSE InternalError

RiskyIn(ym, docs) == RiskyResponse(ym.y, ym.m, risky(filter_by_month(docs, ym.y, ym.m)))

\* the clause of the cascade for a risky question (lines 204-209)
RiskyAnswer(q, docs) == RiskyIn(MonthOrNow(parse_month(q)), docs)

TotalIn(ym, docs, ctx) ==
    IF ym # None
    THEN ChatResponse(
             Str(<<"T","o","t","a","l"," ","s","p","e","n","t"," ","i","n"," ">> \o month_name[ym.m] \o <<" ">> \o DecStr(ym.y)
                 \o <<":"," ","$">> \o Money(sum_amount(filter_by_month(docs, ym.y, ym.m)))),
             None, None)
    ELSE ChatResponse(Str(<<"A","l","l","-","t","i","m","e"," ","t","o","t","a","l",":"," ",
          "$">> \o Money(ctx.total_amount)), None, None)

\* lines 212-219
TotalAnswer(q, docs, ctx) == TotalIn(parse_month(q), docs, ctx)

ExportOf(sub, label) ==
    ChatResponse(Str(<<"G","e","n","e","r","a","t","e","d"," ","t","a","x"," ","C","S","V",
          " ","f","o","r"," ">> \o label \o <<".">>),
                 None,
                 Str(B64Encode(Utf8(build_tax_csv(sub)))))

ExportIn(ym, docs) ==
    IF ym # None
    THEN ExportOf(filter_by_month(docs, ym.y, ym.m),
                  month_name[ym.m] \o <<" ">> \o DecStr(ym.y))
    ELSE ExportOf(docs, <<"a","l","l","-","t","i","m","e">>)

\* lines 222-231
ExportAnswer(q, docs) == ExportIn(parse_month(q), docs)

FallbackWith(llm) ==
    IF llm.t = "raise" THEN InternalError
    ELSE IF Truthy(llm) THEN ChatResponse(llm, None, None)
    ELSE ChatResponse(Str(HelpMessage), None, None)

\* lines 234-241
FallbackAnswer(q, ctx, reply) == FallbackWith(llm_answer(q, ctx, reply))

\* ctx; ctx["sample"] only travels to the language model and is left out
Context(docs) ==
    [count |-> Len(docs), total_amount |-> sum_amount(docs),
     total_vat |-> sum_vat(docs), risky_count |-> Len(risky(docs))]

\* the cascade with the export clause tried first
Cascade_export_first(q, ql, docs, ctx, reply) ==
    IF \E w \in ExportWords : Contains(ql, w)
    THEN ExportAnswer(q, docs)
    ELSE IF Contains(ql, <<"r","i","s","k","y">>) /\ Contains(ql, <<"m","o","n","t","h">>)
    THEN RiskyAnswer(q, docs)
    ELSE IF Contains(ql, <<"t","o","t","a","l">>)
            /\ (Contains(ql, <<"s","p","e","n","t">>) \/ Contains(ql, <<"a","m","o","u","n",
                  "t">>))
    THEN TotalAnswer(q, docs, ctx)
    ELSE FallbackAnswer(q, ctx, reply)

\* lines 201-241: ql is the lower-cased question
Cascade(q, ql, docs, ctx, reply) ==
    IF Contains(ql, <<"r","i","s","k","y">>) /\ Contains(ql, <<"m","o","n","t","h">>)
    THEN RiskyAnswer(q, docs)
    ELSE IF Contains(ql, <<"t","o","t","a","l">>)
            /\ (Contains(ql, <<"s","p","e","n","t">>) \/ Contains(ql, <<"a","m","o","u","n",
                  "t">>))
    THEN TotalAnswer(q, docs, ctx)
    ELSE IF \E w \in ExportWords : Contains(ql, w)
    THEN ExportAnswer(q, docs)
    ELSE FallbackAnswer(q, ctx, reply)

ChatOn(q, docs, reply) == Cascade(q, Lower(q), docs, Context(docs), reply)

\* the response of POST /chat
chat(userId, question, reply) ==
    ChatOn(Strip(question), CoerceEach(list_invoices_for_user(userId), uuid_ctr), reply)

-----------------------------------------------------------------------------
(* main.py: text acquisition and the upload route *)

\* name.endswith(suffix)
EndsWith(s, suffix) ==
    Len(s) >= Len(suffix) /\ SubSeq(s, Len(s) - Len(suffix) + 1, Len(s)) = suffix

\* ocr is what the OCR tools do with the bytes: kind "pages" with the text
\* image_to_string returns for each page (for an image, the one text),
\* "unidentified" when the image cannot be opened, "error" for any other
\* exception, which leaves ocr_bytes_to_texts
OcrRaises(ocr) == ocr.kind = "error"

ocr_bytes_to_texts(data, filename, ocr) ==
    LET name == Lower(Or(filename, Str(<<>>)).s)
    IN  IF ocr.kind = "unidentified" THEN <<>>
        ELSE IF EndsWith(name, <<".","p","d","f">>)
        THEN SelectSeq(ocr.pages, LAMBDA txt : txt # <<>>)
        ELSE SelectSeq(SubSeq(ocr.pages, 1, 1), LAMBDA txt : txt # <<>>)

\* detected is what langdetect returns for the text, None when it raises or
\* is not installed
detect_language(text, detected) == IF text = <<>> THEN None ELSE detected

\* the upload is refused when only the empty file is looked for
UploadRejects_only_empty_file(data, texts) == data = <<>>

\* the two ValueErrors of upload_invoice_ep
UploadRejects(data, texts) == data = <<>> \/ texts = <<>>

\* the messages of the two ValueErrors, written without their diacritics
EmptyFileMessage == <<"B","o","s"," ","d","o","s","y","a"," ","a","l","i","n","d","i",".">>

NoTextMessage ==
    <<"O","C","R"," ","i","c","e","r","i","k"," ","c","i","k","a","r","a","m","a","d","i",".">>

\* the dict of lines 273-287
Assembled(uid, filename, texts, merged, currency, amount, detected) ==
    [id          |-> UuidHex(uuid_ctr),
     userId      |-> uid,
     filename    |-> Or(filename, Str(<<"u","p","l","o","a","d">>)),
     ocr_text    |-> List([i \in 1..Len(texts) |-> Str(texts[i])]),
     vendor      |-> pick_vendor(merged),
     date        |-> DateSearch(merged),
     amount      |-> amount,
     currency    |-> currency,
     vat         |-> vat_guess(currency, merged, amount),
     fraud_score |-> fraud_score(merged, amount),
     createdAt   |-> IsoNow,
     language    |-> detect_language(merged, detected),
     docType     |-> classify_doc_type(merged)]

InvoiceDocOf(uid, filename, texts, merged, detected) ==
    Assembled(uid, filename, texts, merged,
              detect_currency(merged), parse_amount(merged), detected)

\* the dict assembled by upload_invoice_ep once the texts are there
InvoiceDoc(uid, filename, texts, detected) ==
    InvoiceDocOf(uid, filename, texts, JoinLines(texts), detected)

HttpError(status, detail) == [status |-> status, detail |-> Str(detail)]

\* the outcome of a route that writes: the response, the store afterwards,
\* and the number of calls of uuid4
UploadFailed(msg) ==
    [resp  |-> HttpError(500, <<"O","C","R","/","p","a","r","s","e"," ","f","a","i","l","e",
          "d",":"," ">> \o msg),
     store |-> MEM_STORE, uuids |-> 0]

UploadStored(doc) ==
    [resp  |-> [status |-> 200, body |-> InvoiceOut(doc)],
     store |-> save_invoice(doc), uuids |-> 1]

UploadOf(file, uid, texts, ocr, detected) ==
    IF file.data # <<>> /\ OcrRaises(ocr) THEN UploadFailed(ocr.message)
    ELSE IF UploadRejects(file.data, texts)
    THEN UploadFailed(IF file.data = <<>> THEN EmptyFileMessage ELSE NoTextMessage)
    ELSE UploadStored(InvoiceDoc(uid, file.filename, texts, detected))

\* POST /upload_invoice
upload_invoice_ep(file, userId, userId_q, ocr, detected) ==
    UploadOf(file,
             Or(Or(userId, userId_q), Str(<<"a","n","o","n","y","m","o","u","s">>)),
             ocr_bytes_to_texts(file.data, file.filename, ocr),
             ocr, detected)

ListResponse(coerced) ==
    IF \A i \in 1..Len(coerced) : InvoiceOutValid(coerced[i])
    THEN [status |-> 200,
          body |-> List([i \in 1..Len(coerced) |-> InvoiceOut(coerced[i])])]
    ELSE HttpError(500, <<"L","i","s","t"," ","f","a","i","l","e","d">>)

\* GET /invoices
list_invoices_ep(userId) ==
    ListResponse(CoerceEach(list_invoices_for_user(userId), uuid_ctr))

GetResponse(d) ==
    IF InvoiceOutValid(d) THEN [status |-> 200, body |-> InvoiceOut(d)]
    ELSE InternalError

\* GET /invoices/{invoice_id}
get_invoice_by_id(invoice_id) ==
    IF IsDict(get_invoice(invoice_id))
    THEN GetResponse(coerce_legacy(get_invoice(invoice_id)))
    ELSE HttpError(404, <<"I","n","v","o","i","c","e"," ","n","o","t"," ","f","o","u","n","d">>)

-----------------------------------------------------------------------------
(* The clock.  datetime.utcnow() reads it; time passes between calls. *)

\* days from 1970-01-01 to 2025-01-01 (55 years, 14 of them leap years)
DaysTo2025 == 55 * 365 + 14

\* the clock stops advancing after this many days past 2025-01-01
MaxClockDays == 80

\* days the clock advances in one long step
TickDays == 25

ClockAt(day, hour) == [s |-> (DaysTo2025 + day) * SecondsPerDay + hour * 3600, us |-> 0]

\* 2025-01-15T10:00:00 and 2025-03-15T10:00:00
StartTimes == {ClockAt(14, 10), ClockAt(73, 10)}

\* half a second passes
TickShort ==
    /\ now.us = 0
    /\ now' = [now EXCEPT !.us = 500000]
    /\ UNCHANGED <<MEM_STORE, uuid_ctr, req, resp>>

\* TickDays days and half a second pass
TickLong ==
    /\ now.s \div SecondsPerDay < DaysTo2025 + MaxClockDays
    /\ now' = [s |-> now.s + TickDays * SecondsPerDay + (IF now.us = 0 THEN 0 ELSE 1),
               us |-> IF now.us = 0 THEN 500000 ELSE 0]
    /\ UNCHANGED <<MEM_STORE, uuid_ctr, req, resp>>

\* no call made yet
Idle == [op |-> "idle"]

-----------------------------------------------------------------------------
(* coerce_legacy as a function: documents of every legacy shape *)

\* calls of uuid.uuid4() the model follows
MaxUuid == 3

Absent == [t |-> "absent"]

\* the dict holding the keys of f whose value is not Absent
MkDoc(f) == [k \in {x \in DOMAIN f : f[x] # Absent} |-> f[k]]

IsoSample == Str(<<"2","0","2","4","-","0","7","-","0","1","T","0","8",":","0","0",":","0","0","Z">>)

LegacyDocs ==
    { MkDoc(f) : f \in
        [ id         : {Absent, None, Str(<<>>), Str(<<"i","1">>)},
          userId     : {Absent, None, Str(<<>>), Str(<<"u","1">>)},
          createdAt  : {Absent, None, IsoSample, Num(0), Num(1699920000 + 80000), NaN,
                        Timestamp(1699920000), DateTime(1699920000, 250000)},
          rawText    : {Absent, None, Str(<<"r","a","w">>), List(<<Str(<<"p","1">>)>>)},
          ocr_text   : {Absent, List(<<Str(<<"o","c","r">>)>>)},
          sourceName : {Absent, Str(<<"s",".","p","d","f">>)},
          filename   : {Absent, None, Str(<<"f",".","p","n","g">>)},
          amount     : {Absent, Num(45900)} ] }

\* coerce_legacy(r) for a document r of any legacy shape
CoerceCall ==
    /\ req.op = "idle"
    /\ \E r \in LegacyDocs :
         /\ CoerceDrawsUuid(r) => uuid_ctr < MaxUuid
         /\ req' = [op |-> "coerce_legacy", doc |-> r, again |-> FALSE]
         /\ resp' = [ret |-> coerce_legacy(r)]
         /\ uuid_ctr' = IF CoerceDrawsUuid(r) THEN uuid_ctr + 1 ELSE uuid_ctr
    /\ UNCHANGED <<MEM_STORE, now>>

\* coerce_legacy applied to the result of the previous call
CoerceAgain ==
    /\ req.op = "coerce_legacy"
    /\ ~req.again
    /\ CoerceDrawsUuid(resp.ret) => uuid_ctr < MaxUuid
    /\ req' = [op |-> "coerce_legacy", doc |-> resp.ret, again |-> TRUE]
    /\ resp' = [ret |-> coerce_legacy(resp.ret)]
    /\ uuid_ctr' = IF CoerceDrawsUuid(resp.ret) THEN uuid_ctr + 1 ELSE uuid_ctr
    /\ UNCHANGED <<MEM_STORE, now>>

InitCoerce ==
    /\ MEM_STORE = <<>>
    /\ now \in StartTimes
    /\ uuid_ctr = 0
    /\ req = Idle
    /\ resp = Idle

NextCoerce == CoerceCall \/ CoerceAgain \/ TickShort \/ TickLong

SpecCoerce == InitCoerce /\ [][NextCoerce]_vars

\* C6: after coerce_legacy, id and userId are present and non-empty, whatever
\* the input document (missing keys, null or empty values, legacy keys).
C6_IdAndUserIdNonEmpty ==
    req.op = "coerce_legacy" =>
        /\ "id" \in DOMAIN resp.ret /\ Truthy(resp.ret["id"])
        /\ "userId" \in DOMAIN resp.ret /\ Truthy(resp.ret["userId"])

\* C7: coerce_legacy is idempotent: applied to its own result, at a later time
\* and with fresh uuids on offer, it returns that result unchanged.
C7_CoerceIdempotent ==
    (req.op = "coerce_legacy" /\ req.again) => resp.ret = req.doc

\* C7 witness: a second application to a result whose id and createdAt the first
\* application had to fill in (a uuid was drawn, the clock has moved since)
C7_Witness ==
    /\ req.op = "coerce_legacy" /\ req.again
    /\ resp.ret["id"] = UuidHex(0)
    /\ uuid_ctr = 1
    /\ resp.ret["createdAt"] # IsoNow
    /\ resp.ret["createdAt"].t = "str"
    /\ resp.ret["ocr_text"] = List(<<Str(<<"r","a","w">>)>>)

-----------------------------------------------------------------------------
(* parse_amount as a function: texts composed of written numbers *)

\* a number as written, and the value it denotes (thousandths)
NumberSamples ==
    { [txt |-> <<"1","5","0","0","0">>,                 val |-> 15000000],
      [txt |-> <<"2","0","0","0","0">>,                 val |-> 20000000],
      [txt |-> <<"1",".","2","3","4",",","5","6">>,     val |-> 1234560],
      [txt |-> <<"1",",","2","3","4",".","5","6">>,     val |-> 1234560],
      [txt |-> <<"4","5",",","9","0">>,                 val |-> 45900],
      [txt |-> <<"1","5","0">>,                         val |-> 150000],
      [txt |-> <<"7">>,                                 val |-> 7000],
      [txt |-> <<"1",",","2","3","4",",","5","6","7">>, val |-> 1234567000] }

\* what precedes the first number
AmountPrefixes ==
    { <<>>, <<"T","o","t","a","l",":"," ">>, <<"T","o","t","a","l"," ">>,
      <<"U","S","D"," ">>, <<"$">>, <<"€">>, <<"I","n","v","o","i","c","e","\n">> }

\* what separates two numbers
AmountJoiners == { <<"\n">>, <<" ","a","n","d"," ">> }

\* texts with their written numbers: one number, two numbers, no number
AmountInputs ==
    { [text |-> p \o a.txt, written |-> {a.val}] :
          p \in AmountPrefixes, a \in NumberSamples }
    \cup
    { [text |-> p \o a.txt \o j \o b.txt, written |-> {a.val, b.val}] :
          p \in AmountPrefixes, a \in NumberSamples, j \in AmountJoiners,
          b \in NumberSamples }
    \cup
    { [text |-> <<"n","o"," ","t","o","t","a","l"," ","d","u","e">>, written |-> {}],
      [text |-> <<>>, written |-> {}] }

ParseAmountCall ==
    /\ req.op = "idle"
    /\ \E i \in AmountInputs :
         /\ req' = [op |-> "parse_amount", text |-> i.text, written |-> i.written]
         /\ resp' = [ret |-> parse_amount(i.text)]
    /\ UNCHANGED <<MEM_STORE, now, uuid_ctr>>

InitAmount ==
    /\ MEM_STORE = <<>>
    /\ now \in StartTimes
    /\ uuid_ctr = 0
    /\ req = Idle
    /\ resp = Idle

NextAmount == ParseAmountCall

SpecAmount == InitAmount /\ [][NextAmount]_vars

SetMax(S) == CHOOSE x \in S : \A y \in S : y <= x

\* C8: parse_amount returns the largest number written in the text, each read
\* as a whole, and no amount only when the text holds no number.
C8_LargestWrittenNumber ==
    req.op = "parse_amount" =>
        resp.ret = (IF req.written = {} THEN None ELSE Num(SetMax(req.written)))

-----------------------------------------------------------------------------
(* fraud_score as a function: texts composed of red-flag phrases *)

UpperChar(c) ==
    IF \E i \in 1..26 : LowerLetters[i] = c
    THEN Upper[CHOOSE i \in 1..26 : LowerLetters[i] = c]
    ELSE c

\* how a phrase is written: as listed, in capitals, or with a leading capital
Written(s, style) ==
    CASE style = "lower" -> s
      [] style = "upper" -> [i \in 1..Len(s) |-> UpperChar(s[i])]
      [] style = "title" -> [i \in 1..Len(s) |-> IF i = 1 THEN UpperChar(s[i]) ELSE s[i]]

\* the phrases with index in S, each on a line of its own, from phrase i on
RECURSIVE FlagLines(_, _, _)
FlagLines(S, style, i) ==
    IF i > Len(red_flags) THEN <<>>
    ELSE (IF i \in S THEN Written(red_flags[i], style) \o <<"\n">> ELSE <<>>)
         \o FlagLines(S, style, i + 1)

FraudOpenings ==
    { <<>>, <<"D","e","a","r"," ","c","u","s","t","o","m","e","r",","," ">> }

\* unknown, 0, 9999.99, 10000, 10000.01, 15000, 1000000
FraudAmounts ==
    { None, Num(0), Num(9999990), Num(10000000), Num(10000010), Num(15000000),
      Num(1000000000) }

FraudScoreCall ==
    /\ req.op = "idle"
    /\ \E S \in SUBSET (1..Len(red_flags)), style \in {"lower", "upper", "title"},
          o \in FraudOpenings, a \in FraudAmounts :
         /\ req' = [op |-> "fraud_score", text |-> o \o FlagLines(S, style, 1),
                    amount |-> a, flags |-> S]
         /\ resp' = [ret |-> fraud_score(o \o FlagLines(S, style, 1), a)]
    /\ UNCHANGED <<MEM_STORE, now, uuid_ctr>>

InitFraud ==
    /\ MEM_STORE = <<>>
    /\ now \in StartTimes
    /\ uuid_ctr = 0
    /\ req = Idle
    /\ resp = Idle

NextFraud == FraudScoreCall

SpecFraud == InitFraud /\ [][NextFraud]_vars

\* C9: fraud_score is min(0.2 k + (0.3 if amount > 10000), 1.0) for k red-flag
\* phrases present in any letter case; it lies in [0, 1]; two phrases and an
\* amount of 15000 give 0.7, which risky selects.
C9_FraudScoreFormula ==
    req.op = "fraud_score" =>
        LET k      == Cardinality(req.flags)
            large  == req.amount # None /\ req.amount.n > 10000 * 1000
            expect == Min(2 * k + (IF large THEN 3 ELSE 0), 10) * 100
        IN  /\ resp.ret = Num(expect)
            /\ resp.ret.n >= 0 /\ resp.ret.n <= 1000
            /\ (k = 2 /\ req.amount = Num(15000 * 1000)) =>
                   /\ resp.ret = Num(700)
                   /\ risky(<<[fraud_score |-> resp.ret]>>) = <<[fraud_score |-> resp.ret]>>

\* C9 witness: "URGENT" and "WIRE IMMEDIATELY" in capitals with amount 15000
C9_Witness ==
    /\ req.op = "fraud_score"
    /\ req.flags = {2, 3}
    /\ req.amount = Num(15000000)
    /\ Contains(req.text, <<"U","R","G","E","N","T">>)
    /\ resp.ret = Num(700)

-----------------------------------------------------------------------------
(* Questions: sentences over a small vocabulary *)

W_this == <<"t","h","i","s">>
W_last == <<"l","a","s","t">>
W_month == <<"m","o","n","t","h">>
W_What == <<"W","h","a","t">>
W_invoices == <<"i","n","v","o","i","c","e","s">>
W_are == <<"a","r","e">>
W_risky == <<"r","i","s","k","y">>
W_risky_q == <<"r","i","s","k","y","?">>
W_month_q == <<"m","o","n","t","h","?">>
W_Total == <<"T","o","t","a","l">>
W_total == <<"t","o","t","a","l">>
W_spent == <<"s","p","e","n","t">>
W_amount == <<"a","m","o","u","n","t">>
W_in == <<"i","n">>
W_and == <<"a","n","d">>
W_or == <<"o","r">>
W_for == <<"f","o","r">>
W_August == <<"A","u","g","u","s","t">>
W_AUGUST == <<"A","U","G","U","S","T">>
W_aug == <<"a","u","g">>
W_March == <<"M","a","r","c","h">>
W_May == <<"M","a","y">>
W_Sept == <<"S","e","p","t">>
W_december == <<"d","e","c","e","m","b","e","r">>
W_january == <<"j","a","n","u","a","r","y">>
W_1999 == <<"1","9","9","9">>
W_2020 == <<"2","0","2","0">>
W_2024 == <<"2","0","2","4">>
W_2025 == <<"2","0","2","5">>
W_Export == <<"E","x","p","o","r","t">>
W_export == <<"e","x","p","o","r","t">>
W_my == <<"m","y">>
W_tax == <<"t","a","x">>
W_summary == <<"s","u","m","m","a","r","y">>
W_csv == <<"c","s","v">>
W_CSV == <<"C","S","V">>
W_VAT == <<"V","A","T">>
W_report == <<"r","e","p","o","r","t">>
W_hello == <<"h","e","l","l","o">>
W_please == <<"p","l","e","a","s","e">>
W_empty == <<>>

\* the words joined by single spaces (an empty word leaves its spaces)
RECURSIVE Sentence(_)
Sentence(ws) ==
    IF ws = <<>> THEN <<>>
    ELSE IF Len(ws) = 1 THEN ws[1]
    ELSE ws[1] \o <<" ">> \o Sentence(Tail(ws))

Q_TotalAugust2025 == Sentence(<<W_total, W_spent, W_in, W_August, W_2025>>)

Q_ExportMyTaxSummary == Sentence(<<W_Export, W_my, W_tax, W_summary>>)

Q_RiskyThisMonth == Sentence(<<W_What, W_invoices, W_are, W_risky, W_this, W_month_q>>)

\* questions naming August 2025 and nothing else that parse_month looks for
AugustQuestions ==
    { Q_TotalAugust2025,
      Sentence(<<W_Total, W_spent, W_in, W_AUGUST, W_empty, W_2025>>),
      Sentence(<<W_August, W_2025>>),
      W_August \o <<"\n">> \o W_2025,
      Sentence(<<W_August, W_2025>>) \o <<"1">> }

MonthQuestions ==
    AugustQuestions \cup
    { Sentence(<<W_this, W_month>>),
      Q_RiskyThisMonth,
      Sentence(<<W_last, W_month>>),
      Sentence(<<W_Total, W_spent, W_last, W_month>>),
      Sentence(<<W_this, W_month, W_and, W_last, W_month>>),
      Sentence(<<W_last, W_month, W_or, W_this, W_month>>),
      Sentence(<<W_August, W_this, W_month>>),
      Sentence(<<W_August, W_2025, W_last, W_month>>),
      W_August,
      W_August \o W_2025,
      Sentence(<<W_aug, W_2024>>),
      Sentence(<<W_Sept, W_2025>>),
      Sentence(<<W_total, W_spent, W_in, W_May>>),
      Sentence(<<W_december, W_1999, W_or, W_january, W_2020>>),
      Sentence(<<W_VAT, W_for, W_March, W_and, W_August, W_2025>>),
      Q_ExportMyTaxSummary,
      Sentence(<<W_risky, W_month, W_export>>),
      W_hello }

-----------------------------------------------------------------------------
(* parse_month as a function of the question and the current UTC time *)

\* [y, m, d] -> days since 1970-01-01
DaysFromCivil(c) ==
    LET y   == IF c.m <= 2 THEN c.y - 1 ELSE c.y
        era == y \div 400
        yoe == y - era * 400
        mp  == IF c.m > 2 THEN c.m - 3 ELSE c.m + 9
        doy == (153 * mp + 2) \div 5 + c.d - 1
        doe == yoe * 365 + yoe \div 4 - yoe \div 100 + doy
    IN  era * 146097 + doe - 719468

\* the current date: turns of the year and of the month, leap and common years
MonthTestDates ==
    { [y |-> 2025, m |-> 1,  d |-> 1],  [y |-> 2025, m |-> 1,  d |-> 15],
      [y |-> 2025, m |-> 3,  d |-> 1],  [y |-> 2024, m |-> 3,  d |-> 1],
      [y |-> 2025, m |-> 3,  d |-> 15], [y |-> 2025, m |-> 3,  d |-> 31],
      [y |-> 2025, m |-> 12, d |-> 31], [y |-> 2024, m |-> 12, d |-> 31],
      [y |-> 2024, m |-> 2,  d |-> 29], [y |-> 2026, m |-> 1,  d |-> 31] }

\* the time of day: midnight, and half a second before the next midnight
MonthTestTimes == { [s |-> 0, us |-> 0], [s |-> SecondsPerDay - 1, us |-> 500000] }

ParseMonthCall ==
    /\ req.op = "idle"
    /\ \E q \in MonthQuestions, c \in MonthTestDates :
         /\ DaysFromCivil(c) = now.s \div SecondsPerDay
         /\ req' = [op |-> "parse_month", query |-> q, today |-> c]
         /\ resp' = [ret |-> parse_month(q)]
    /\ UNCHANGED <<MEM_STORE, now, uuid_ctr>>

InitMonth ==
    /\ MEM_STORE = <<>>
    /\ \E c \in MonthTestDates, tod \in MonthTestTimes :
         now = [s |-> DaysFromCivil(c) * SecondsPerDay + tod.s, us |-> tod.us]
    /\ uuid_ctr = 0
    /\ req = Idle
    /\ resp = Idle

NextMonth == ParseMonthCall

SpecMonth == InitMonth /\ [][NextMonth]_vars

\* C10: "this month" resolves to the current UTC year and month; "last month"
\* (without "this month") to the calendar month before, December of the year
\* before in January; a question naming August 2025 resolves to (2025, 8).
C10_ParseMonth ==
    req.op = "parse_month" =>
        LET q     == Lower(req.query)
            today == req.today
            this  == Contains(q, Sentence(<<W_this, W_month>>))
            last  == Contains(q, Sentence(<<W_last, W_month>>))
        IN  /\ this => resp.ret = YearMonth(today.y, today.m)
            /\ (last /\ ~this) =>
                   resp.ret = (IF today.m = 1 THEN YearMonth(today.y - 1, 12)
                               ELSE YearMonth(today.y, today.m - 1))
            /\ req.query \in AugustQuestions => resp.ret = YearMonth(2025, 8)

\* C10 witness: "last month" asked in January
C10_Witness ==
    /\ req.op = "parse_month"
    /\ req.query = Sentence(<<W_Total, W_spent, W_last, W_month>>)
    /\ req.today = [y |-> 2025, m |-> 1, d |-> 15]
    /\ resp.ret = YearMonth(2024, 12)

-----------------------------------------------------------------------------
(* filter_by_month as a function: records with supported date strings *)

\* a day-month-year string with the year and month it denotes
DateSamples ==
    { [txt |-> dd \o sep \o mm.txt \o sep \o yy.txt, y |-> yy.y, m |-> mm.m] :
        dd  \in { <<"0","1">>, <<"5">>, <<"3","1">> },
        sep \in { <<".">>, <<"/">>, <<"-">> },
        mm  \in { [txt |-> <<"0","7">>, m |-> 7], [txt |-> <<"0","8">>, m |-> 8],
                  [txt |-> <<"8">>, m |-> 8],     [txt |-> <<"1","2">>, m |-> 12] },
        yy  \in { [txt |-> <<"2","0","2","5">>, y |-> 2025],
                  [txt |-> <<"2","5">>, y |-> 2025],
                  [txt |-> <<"2","0","2","4">>, y |-> 2024] } }

\* createdAt as upload writes it, with the UTC year and month it lies in;
\* y = 0 stands for a record without createdAt
CreatedAtSamples ==
    { [val |-> Str(IsoFormat(DateTime(DaysFromCivil(c) * SecondsPerDay + 36000, us))
                   \o <<"Z">>),
       y |-> c.y, m |-> c.m] :
        c \in { [y |-> 2025, m |-> 8, d |-> 20], [y |-> 2025, m |-> 7, d |-> 31],
                [y |-> 2024, m |-> 8, d |-> 1] },
        us \in {0, 123456} }
    \cup { [val |-> None, y |-> 0, m |-> 0] }

FilterTargets ==
    { [y |-> 2025, m |-> 8], [y |-> 2025, m |-> 7], [y |-> 2024, m |-> 8],
      [y |-> 2025, m |-> 12], [y |-> 2024, m |-> 12] }

\* a stored record as filter_by_month reads it, with what its fields denote
FilterRecord(id, ds, cs) ==
    [doc  |-> [id |-> Str(id), date |-> Str(ds.txt), createdAt |-> cs.val],
     date |-> [y |-> ds.y, m |-> ds.m],
     created |-> [y |-> cs.y, m |-> cs.m]]

\* records that follow the first one in the list
FilterSecondRecords ==
    { FilterRecord(<<"b">>, ds, cs) :
        ds \in { x \in DateSamples : x.txt \in { <<"0","1",".","0","8",".","2","0","2","5">>,
                                                 <<"5","/","1","2","/","2","5">> } },
        cs \in { x \in CreatedAtSamples : x.y \in {0, 2024} } }

FilterByMonthCall ==
    /\ req.op = "idle"
    /\ \E ds \in DateSamples, cs \in CreatedAtSamples, tg \in FilterTargets,
          rest \in {<<>>} \cup { <<r>> : r \in FilterSecondRecords } :
         LET recs == <<FilterRecord(<<"a">>, ds, cs)>> \o rest
             invs == [i \in 1..Len(recs) |-> recs[i].doc]
         IN  /\ req' = [op |-> "filter_by_month", invs |-> invs, y |-> tg.y, m |-> tg.m,
                        date    |-> [i \in 1..Len(recs) |-> recs[i].date],
                        created |-> [i \in 1..Len(recs) |-> recs[i].created]]
             /\ resp' = [ret |-> filter_by_month(invs, tg.y, tg.m)]
    /\ UNCHANGED <<MEM_STORE, now, uuid_ctr>>

InitFilter ==
    /\ MEM_STORE = <<>>
    /\ now \in StartTimes
    /\ uuid_ctr = 0
    /\ req = Idle
    /\ resp = Idle

NextFilter == FilterByMonthCall

SpecFilter == InitFilter /\ [][NextFilter]_vars

Range(q) == {q[i] : i \in 1..Len(q)}

\* C5 (as claimed): for supported date strings filter_by_month returns exactly
\* the records whose parsed date has the target year and month; a record whose
\* date is in another month is never selected, whatever its createdAt.
C5_ExactlyDateMatches ==
    req.op = "filter_by_month" =>
        \A i \in 1..Len(req.invs) :
            req.invs[i] \in Range(resp.ret)
                <=> (req.date[i].y = req.y /\ req.date[i].m = req.m)

\* C5 (amended): for supported date strings filter_by_month returns exactly
\* the records whose parsed date (two-digit years read as 20YY) has the target
\* year and month, or whose createdAt lies in the target year and month.
C5_DateOrCreatedAtMatches ==
    req.op = "filter_by_month" =>
        \A i \in 1..Len(req.invs) :
            req.invs[i] \in Range(resp.ret)
                <=> \/ (req.date[i].y = req.y /\ req.date[i].m = req.m)
                    \/ (req.created[i].y = req.y /\ req.created[i].m = req.m)

\* C5 witness: two records, the first dated DD/MM/YY in the target month and
\* created in another, the second dated in another month; only the first is
\* returned
C5_Witness ==
    /\ req.op = "filter_by_month"
    /\ Len(req.invs) = 2
    /\ req.invs[1]["date"] = Str(<<"3","1","/","0","8","/","2","5">>)
    /\ req.y = 2025 /\ req.m = 8
    /\ req.created[1] = [y |-> 2025, m |-> 7]
    /\ req.date[2] = [y |-> 2025, m |-> 12]
    /\ resp.ret = <<req.invs[1]>>

-----------------------------------------------------------------------------
(* The service: uploads, listings and chat questions arrive one at a time; *)
(* a request is answered before the next one is taken.                     *)

\* successful uploads in one behaviour
MaxUploads == 2

U1 == <<"u","1">>
U2 == <<"u","2">>

\* the userId of the form and the userId of the query string
UploadUsers ==
    { [userId |-> Str(U1),   userId_q |-> None],
      [userId |-> Str(<<>>), userId_q |-> Str(U2)],
      [userId |-> None,      userId_q |-> None] }

Pages(pages) == [kind |-> "pages", pages |-> pages, message |-> <<>>]

SomeBytes == <<37, 80, 68, 70>>

\* a PDF of two pages, risky: three red flags and a large amount
RiskyPdf ==
    [file |-> [filename |-> Str(<<"I","n","v","-","0","0","1",".","P","D","F">>), data |-> SomeBytes],
     ocr  |-> Pages(<< <<"A","c","m","e"," ","L","t","d","\n","D","a","t","e",":"," ","1",
           "0",".","0","3",".","2","0","2","5","\n","T","o","t","a","l",":"," ","U","S","D",
           " ","1","5",",","0","0","0",".","0","0","\n","V","A","T"," ","2","0","%","\n","U",
           "R","G","E","N","T"," ","w","i","r","e"," ","i","m","m","e","d","i","a","t","e",
           "l","y">>,
                       <<"p","a","y"," ","b","y"," ","g","i","f","t"," ","c","a","r","d">> >>),
     detected |-> Str(<<"e","n">>)]

\* a photo sent without a file name, amounts written the continental way
EuroPhoto ==
    [file |-> [filename |-> None, data |-> SomeBytes],
     ocr  |-> Pages(<< <<"B","e","t","a"," ","G","m","b","H","\n","4","5",",","9","0"," ",
           "E","U","R","\n","1","5","/","0","2","/","2","5">> >>),
     detected |-> None]

\* a PDF whose first page reads as a line feed only
DollarPdf ==
    [file |-> [filename |-> Str(<<"g",".","p","d","f">>), data |-> SomeBytes],
     ocr  |-> Pages(<< <<"\n">>, <<"G","a","m","m","a",","," ","I","n","c",".","\n","2","0",
           "2","5","-","0","4","-","0","2","\n","$"," ","1","2","0",".","0","0"," ","t","a",
           "x"," ","7",".","5","%">> >>),
     detected |-> Str(<<"e","n">>)]

\* a PDF of two pages on which OCR reads nothing
BlankPdf ==
    [file |-> [filename |-> Str(<<"b","l","a","n","k",".","p","d","f">>), data |-> SomeBytes],
     ocr  |-> Pages(<< <<>>, <<>> >>),
     detected |-> None]

\* bytes that are no image
NoImage ==
    [file |-> [filename |-> Str(<<"n","o","t","e",".","t","x","t">>), data |-> SomeBytes],
     ocr  |-> [kind |-> "unidentified", pages |-> <<>>, message |-> <<>>],
     detected |-> None]

EmptyFile ==
    [file |-> [filename |-> Str(<<"e","m","p","t","y",".","p","d","f">>), data |-> <<>>],
     ocr  |-> Pages(<<>>),
     detected |-> None]

\* the PDF converter is not installed
BrokenOcr ==
    [file |-> [filename |-> Str(<<"x",".","p","d","f">>), data |-> SomeBytes],
     ocr  |-> [kind |-> "error", pages |-> <<>>, message |-> <<"U","n","a","b","l","e"," ",
           "t","o"," ","g","e","t"," ","p","a","g","e"," ","c","o","u","n","t",".">>],
     detected |-> None]

UploadFiles == {RiskyPdf, EuroPhoto, DollarPdf, BlankPdf, NoImage, EmptyFile, BrokenOcr}

\* the upload of f is refused (an exception reaches the except clause)
Refused(f) ==
    \/ f.file.data # <<>> /\ OcrRaises(f.ocr)
    \/ UploadRejects(f.file.data, ocr_bytes_to_texts(f.file.data, f.file.filename, f.ocr))

\* req.before keeps the store as it was when the request came
UploadStep(f, u, r) ==
    /\ req' = [op |-> "upload", file |-> f.file, userId |-> u.userId,
               userId_q |-> u.userId_q, ocr |-> f.ocr, detected |-> f.detected,
               before |-> MEM_STORE]
    /\ resp' = r.resp
    /\ MEM_STORE' = r.store
    /\ uuid_ctr' = uuid_ctr + r.uuids

UploadCall ==
    /\ req.op = "idle"
    /\ \E f \in UploadFiles, u \in UploadUsers :
         /\ Refused(f) \/ Len(MEM_STORE) < MaxUploads
         /\ UploadStep(f, u, upload_invoice_ep(f.file, u.userId, u.userId_q,
                                               f.ocr, f.detected))
    /\ UNCHANGED now

\* what the language model service may do with a request
Unconfigured == [configured |-> FALSE, kind |-> "none", content |-> None]

Raises == [configured |-> TRUE, kind |-> "raises", content |-> None]

Answers == [configured |-> TRUE, kind |-> "ok", content |-> Str(<<" ","Y","o","u"," ","h",
      "a","v","e"," ","2"," ","i","n","v","o","i","c","e","s",".","\n">>)]

LlmReplies ==
    { Unconfigured, Raises, Answers,
      [configured |-> TRUE, kind |-> "malformed", content |-> None],
      [configured |-> TRUE, kind |-> "ok", content |-> None],
      [configured |-> TRUE, kind |-> "ok", content |-> Str(<<>>)],
      [configured |-> TRUE, kind |-> "ok", content |-> Str(<<" ","\n">>)] }

\* a question: the words the user wrote, the text sent, and the replies of
\* the language model to be tried with it
Question(words, replies) == [words |-> words, text |-> Sentence(words), replies |-> replies]

Q_ExportRiskyThisMonth ==
    Sentence(<<W_export, W_risky, W_invoices, W_this, W_month>>)

ChatQuestions ==
    { Question(<<W_What, W_invoices, W_are, W_risky, W_this, W_month_q>>, {Unconfigured}),
      Question(<<W_export, W_risky, W_invoices, W_this, W_month>>, {Unconfigured}),
      Question(<<W_Total, W_spent, W_in, W_March, W_2025>>, {Unconfigured}),
      Question(<<W_total, W_amount, W_report>>, {Unconfigured}),
      Question(<<W_Export, W_my, W_tax, W_summary>>, {Unconfigured}),
      Question(<<W_export, W_csv>>, {Unconfigured}),
      Question(<<W_VAT, W_report, W_last, W_month>>, {Unconfigured}),
      Question(<<W_risky, W_invoices>>, {Unconfigured, Answers}),
      Question(<<W_hello>>, LlmReplies),
      [words |-> <<>>, text |-> <<" "," ">>, replies |-> {Unconfigured, Raises}] }

ChatUsers == {Str(U1), Str(U2)}

ChatCall ==
    /\ req.op = "idle"
    /\ \E q \in ChatQuestions, u \in ChatUsers :
         \E reply \in q.replies :
             /\ req' = [op |-> "chat", userId |-> u, question |-> q.text,
                        words |-> q.words, reply |-> reply, before |-> MEM_STORE]
             /\ resp' = chat(u, q.text, reply)
             /\ uuid_ctr' = uuid_ctr + UuidDraws(list_invoices_for_user(u))
    /\ UNCHANGED <<MEM_STORE, now>>

ListUsers == {None, Str(U1), Str(<<"a","n","o","n","y","m","o","u","s">>)}

ListCall ==
    /\ req.op = "idle"
    /\ \E u \in ListUsers :
         /\ req' = [op |-> "list", userId |-> u, before |-> MEM_STORE]
         /\ resp' = list_invoices_ep(u)
         /\ uuid_ctr' = uuid_ctr + UuidDraws(list_invoices_for_user(u))
    /\ UNCHANGED <<MEM_STORE, now>>

GetCall ==
    /\ req.op = "idle"
    /\ \E k \in 0..1 :
         /\ req' = [op |-> "get", invoice_id |-> UuidHex(k), before |-> MEM_STORE]
         /\ resp' = get_invoice_by_id(UuidHex(k))
    /\ UNCHANGED <<MEM_STORE, now, uuid_ctr>>

\* the response has gone out; the next request can come
Deliver ==
    /\ req.op # "idle"
    /\ req' = Idle
    /\ resp' = Idle
    /\ UNCHANGED <<MEM_STORE, now, uuid_ctr>>

\* days pass between two requests
Tick == req.op = "idle" /\ TickLong

Init ==
    /\ MEM_STORE = <<>>
    /\ now = ClockAt(73, 10)
    /\ uuid_ctr = 0
    /\ req = Idle
    /\ resp = Idle

Next == UploadCall \/ ChatCall \/ ListCall \/ GetCall \/ Deliver \/ Tick

Spec == Init /\ [][Next]_vars

-----------------------------------------------------------------------------
(* Claims about the service *)

\* the user ids a listing can be asked for
ListedUsers == {None, Str(U1), Str(U2), Str(<<"a","n","o","n","y","m","o","u","s">>)}

\* the request just taken is an upload of an empty file, or of a file for
\* which ocr_bytes_to_texts returns the empty list
UploadWithoutText(r) ==
    /\ r.op = "upload"
    /\ \/ r.file.data = <<>>
       \/ /\ ~OcrRaises(r.ocr)
          /\ ocr_bytes_to_texts(r.file.data, r.file.filename, r.ocr) = <<>>

\* C1: an upload of an empty file, or of a file whose text acquisition yields
\* zero page texts, fails with an error and stores nothing: the store is the
\* same before and after, and so is the listing of every user.
C1_RejectedUploadStoresNothing ==
    UploadWithoutText(req) =>
        /\ resp.status = 500
        /\ MEM_STORE = req.before
        /\ \A u \in ListedUsers :
               list_invoices_for_user(u) = ListFrom(req.before, u)

\* C1 witness: a PDF with bytes whose pages all read empty was refused while
\* the store held a record
C1_Witness ==
    /\ UploadWithoutText(req)
    /\ req.file.data # <<>>
    /\ resp.status = 500
    /\ list_invoices_for_user(None) # <<>>

StartsWith(s, prefix) == MatchAt(s, prefix, 1)

\* the predicates of the cascade, on the lower-cased question
AsksRiskyMonth(ql) == Contains(ql, <<"r","i","s","k","y">>) /\ Contains(ql, <<"m","o","n",
      "t","h">>)

AsksTotal(ql) ==
    Contains(ql, <<"t","o","t","a","l">>) /\ (Contains(ql, <<"s","p","e","n","t">>) \/ Contains(ql, <<"a",
          "m","o","u","n","t">>))

AsksExport(ql) ==
    \/ Contains(ql, <<"e","x","p","o","r","t">>) \/ Contains(ql, <<"c","s","v">>) \/ Contains(ql, <<"t",
          "a","x">>)
    \/ Contains(ql, <<"v","a","t">>) \/ Contains(ql, <<"s","u","m","m","a","r","y">>) \/ Contains(ql, <<"r",
          "e","p","o","r","t">>)

\* the language model gave a usable answer
LlmAnswers(reply) ==
    /\ reply.configured
    /\ reply.kind = "ok"
    /\ reply.content.t = "str"
    /\ Strip(reply.content.s) # <<>>

\* the shapes of the five answers
AnsweredRisky(r) ==
    /\ r.status = 200
    /\ r.invoices.t = "list"
    /\ r.csv_base64 = None
    /\ Contains(r.answer.s, <<" ","r","i","s","k","y"," ","i","n","v","o","i","c","e","s",
          ":"," ">>)

AnsweredTotal(r) ==
    /\ r.status = 200
    /\ r.invoices = None
    /\ r.csv_base64 = None
    /\ \/ StartsWith(r.answer.s, <<"T","o","t","a","l"," ","s","p","e","n","t"," ","i","n",
          " ">>)
       \/ StartsWith(r.answer.s, <<"A","l","l","-","t","i","m","e"," ","t","o","t","a","l",
             ":"," ","$">>)

AnsweredExport(r) ==
    /\ r.status = 200
    /\ r.invoices = None
    /\ r.csv_base64.t = "str"
    /\ StartsWith(r.answer.s, <<"G","e","n","e","r","a","t","e","d"," ","t","a","x"," ","C",
          "S","V"," ","f","o","r"," ">>)

AnsweredByLlm(r, reply) ==
    /\ r.status = 200
    /\ r.invoices = None
    /\ r.csv_base64 = None
    /\ r.answer = Str(Strip(reply.content.s))

AnsweredHelp(r) ==
    /\ r.status = 200
    /\ r.invoices = None
    /\ r.csv_base64 = None
    /\ r.answer = Str(HelpMessage)

FirstBranch(ql, reply, r) ==
    IF AsksRiskyMonth(ql) THEN AnsweredRisky(r)
    ELSE IF AsksTotal(ql) THEN AnsweredTotal(r)
    ELSE IF AsksExport(ql) THEN AnsweredExport(r)
    ELSE IF LlmAnswers(reply) THEN AnsweredByLlm(r, reply)
    ELSE AnsweredHelp(r)

\* C2: chat answers through the first branch, in the order risky-and-month,
\* total-and-(spent-or-amount), export words, language model, help, whose
\* predicate holds on the lower-cased question, and through no later one; a
\* question with "risky", "month" and "export" gets the risky answer.
C2_FirstMatchingBranchAnswers ==
    req.op = "chat" => FirstBranch(Lower(Strip(req.question)), req.reply, resp)

\* C2 witness: "export risky invoices this month" was answered with the risky
\* invoices of the month, one of them at least
C2_Witness ==
    /\ req.op = "chat"
    /\ req.question = Q_ExportRiskyThisMonth
    /\ AnsweredRisky(resp)
    /\ resp.invoices.l # <<>>

\* no keyword branch takes the question
NoKeywordIntent(ql) == ~AsksRiskyMonth(ql) /\ ~AsksTotal(ql) /\ ~AsksExport(ql)

\* the language model step is unconfigured, raises, returns a malformed
\* response or returns an empty answer
LlmFails(reply) ==
    \/ ~reply.configured
    \/ reply.kind \in {"raises", "malformed"}
    \/ reply.content.t # "str"
    \/ Strip(reply.content.s) = <<>>

\* C3: chat always returns a response with a non-empty textual answer; when
\* no keyword branch takes the question and the language model step fails,
\* the failure is swallowed and the answer is the help message.
C3_AlwaysAnAnswer ==
    req.op = "chat" =>
        /\ resp.status = 200
        /\ resp.answer.t = "str"
        /\ resp.answer.s # <<>>
        /\ (NoKeywordIntent(Lower(Strip(req.question))) /\ LlmFails(req.reply))
               => resp.answer = Str(HelpMessage)

\* C3 witness: a user with stored records asked a question no keyword branch
\* takes, the request to the language model raised, and the help message
\* came back
C3_Witness ==
    /\ req.op = "chat"
    /\ NoKeywordIntent(Lower(Strip(req.question)))
    /\ req.reply = Raises
    /\ list_invoices_for_user(req.userId) # <<>>
    /\ resp.answer = Str(HelpMessage)

\* a word without the punctuation that follows it, lower-cased
RECURSIVE WordCore(_)
WordCore(w) ==
    IF w # <<>> /\ w[Len(w)] \in {"?", "!", ".", ","}
    THEN WordCore(SubSeq(w, 1, Len(w) - 1))
    ELSE Lower(w)

\* the words name a month: "this month", "last month", or an English month
\* name or abbreviation
NamesMonth(words) ==
    \/ \E i \in 1..Len(words), m \in 1..12 :
           WordCore(words[i]) \in {MONTHS_MAP_EN[m], ABBR_MAP_EN[m]}
    \/ \E i \in 1..(Len(words) - 1) :
           /\ WordCore(words[i]) \in {W_this, W_last}
           /\ WordCore(words[i + 1]) = W_month

\* C4: a question that reaches the export branch and names no month gets the
\* CSV of all the user's records, one data row per record, and the answer
\* names the period "all-time".
C4_ExportWithoutMonthIsAllTime ==
    ( /\ req.op = "chat"
      /\ ~AsksRiskyMonth(Lower(Strip(req.question)))
      /\ ~AsksTotal(Lower(Strip(req.question)))
      /\ AsksExport(Lower(Strip(req.question)))
      /\ ~NamesMonth(req.words) )
    => /\ resp.answer = Str(<<"G","e","n","e","r","a","t","e","d"," ","t","a","x"," ","C",
          "S","V"," ","f","o","r"," ","a","l","l","-","t","i","m","e",".">>)
       /\ resp.csv_base64 =
              Str(B64Encode(Utf8(build_tax_csv(
                  CoerceEach(list_invoices_for_user(req.userId), uuid_ctr)))))

-----------------------------------------------------------------------------
(* ocr_bytes_to_texts as a function of what the OCR reads on each page *)

\* pages of a PDF tried
MaxPages == 3

\* what pytesseract.image_to_string returns for a page: nothing, white space
\* only, or text
OcrPageTexts == { <<>>, <<" ">>, <<"\n", "\t">>, <<"a">>, <<" ", "b", "\n">> }

OcrPdfs ==
    { [file |-> [filename |-> Str(<<"s", ".", "p", "d", "f">>), data |-> SomeBytes],
       ocr |-> Pages(pages), detected |-> None] :
        pages \in UNION { [1..n -> OcrPageTexts] : n \in 0..MaxPages } }

\* an image is one page
OcrImages ==
    { [file |-> [filename |-> name, data |-> SomeBytes],
       ocr |-> Pages(<<txt>>), detected |-> None] :
        name \in {Str(<<"s", ".", "p", "n", "g">>), None}, txt \in OcrPageTexts }

OcrUploadCall ==
    /\ req.op = "idle"
    /\ \E f \in OcrPdfs \cup OcrImages :
         UploadStep(f, [userId |-> Str(U1), userId_q |-> None],
                    upload_invoice_ep(f.file, Str(U1), None, f.ocr, f.detected))
    /\ UNCHANGED now

\* the process is started again: the in-memory store is empty
OcrRestart ==
    /\ req.op # "idle"
    /\ req' = Idle
    /\ resp' = Idle
    /\ MEM_STORE' = <<>>
    /\ uuid_ctr' = 0
    /\ UNCHANGED now

InitOcr ==
    /\ MEM_STORE = <<>>
    /\ now = ClockAt(73, 10)
    /\ uuid_ctr = 0
    /\ req = Idle
    /\ resp = Idle

NextOcr == OcrUploadCall \/ OcrRestart

SpecOcr == InitOcr /\ [][NextOcr]_vars

\* the pages whose text is not empty once white space is ignored
NonBlankPages(pages) == SelectSeq(pages, LAMBDA txt : Strip(txt) # <<>>)

\* C11: ocr_bytes_to_texts keeps, in page order, exactly the pages whose OCR
\* output is not empty once white space is ignored; a document whose pages
\* are all blank gives the empty list and its upload is refused.
C11_BlankPagesContributeNothing ==
    req.op = "upload" =>
        /\ ocr_bytes_to_texts(req.file.data, req.file.filename, req.ocr)
               = NonBlankPages(req.ocr.pages)
        /\ NonBlankPages(req.ocr.pages) = <<>>
               => resp.status = 500 /\ MEM_STORE = req.before

-----------------------------------------------------------------------------
(* main.py: /users/sync and /users/logins, which write to the same store *)

\* the value of MEM_STORE after sync_user(u): the profile is put under
\* "user::<userId>"
sync_user(userId, email, displayName) ==
    StorePut(MEM_STORE, Str(<<"u", "s", "e", "r", ":", ":">> \o userId.s),
             [email |-> email, displayName |-> displayName, updatedAt |-> IsoNow])

\* the value of MEM_STORE after log_login(ev): ev.dict() is appended to the
\* list under "log::<userId>", which setdefault creates
log_login_to(k, old, ev) ==
    StorePut(MEM_STORE, k, List((IF old = None THEN <<>> ELSE old.l) \o <<ev>>))

log_login(ev) ==
    log_login_to(Str(<<"l", "o", "g", ":", ":">> \o ev["userId"].s),
                 StoreGet(MEM_STORE, Str(<<"l", "o", "g", ":", ":">> \o ev["userId"].s)),
                 ev)

OkResponse == [status |-> 200, body |-> [ok |-> TRUE]]

-----------------------------------------------------------------------------
(* The store under uploads, profile syncs and login events, with the clock *)
(* moving by less than a second between two requests                       *)

\* login events kept for one user
MaxLogins == 2

StoreUsers ==
    { [userId |-> Str(U1), userId_q |-> None],
      [userId |-> None,    userId_q |-> Str(U2)] }

StoreUploadCall ==
    /\ req.op = "idle"
    /\ Len(SelectSeq(MEM_STORE, LAMBDA e : IsDict(e.v) /\ "id" \in DOMAIN e.v)) < MaxUploads
    /\ uuid_ctr < MaxUuid
    /\ \E u \in StoreUsers :
         UploadStep(EuroPhoto, u,
                    upload_invoice_ep(EuroPhoto.file, u.userId, u.userId_q,
                                      EuroPhoto.ocr, EuroPhoto.detected))
    /\ UNCHANGED now

SyncCall ==
    /\ req.op = "idle"
    /\ \E email \in {None, Str(<<"a", "@", "b">>)} :
         /\ req' = [op |-> "sync", userId |-> Str(U1), email |-> email,
                    displayName |-> None, before |-> MEM_STORE]
         /\ resp' = OkResponse
         /\ MEM_STORE' = sync_user(Str(U1), email, None)
    /\ UNCHANGED <<now, uuid_ctr>>

LoginEvents ==
    { [userId |-> Str(U1), ts |-> Str(<<"t">>), userAgent |-> None,
       type |-> Str(<<"l", "o", "g", "i", "n">>)] }

LoginCount(store, userId) ==
    LET old == StoreGet(store, Str(<<"l", "o", "g", ":", ":">> \o userId.s))
    IN  IF old = None THEN 0 ELSE Len(old.l)

LoginCall ==
    /\ req.op = "idle"
    /\ \E ev \in LoginEvents :
         /\ LoginCount(MEM_STORE, ev["userId"]) < MaxLogins
         /\ req' = [op |-> "login", ev |-> ev, before |-> MEM_STORE]
         /\ resp' = OkResponse
         /\ MEM_STORE' = log_login(ev)
    /\ UNCHANGED <<now, uuid_ctr>>

\* GET /invoices; a listed entry without an id draws one from uuid.uuid4()
StoreListCall ==
    /\ req.op = "idle"
    /\ \E u \in ListUsers :
         /\ uuid_ctr + UuidDraws(list_invoices_for_user(u)) <= MaxUuid
         /\ req' = [op |-> "list", userId |-> u]
         /\ resp' = list_invoices_ep(u)
         /\ uuid_ctr' = uuid_ctr + UuidDraws(list_invoices_for_user(u))
    /\ UNCHANGED <<MEM_STORE, now>>

StoreTick == req.op = "idle" /\ TickShort

InitStore ==
    /\ MEM_STORE = <<>>
    /\ now = ClockAt(73, 10)
    /\ uuid_ctr = 0
    /\ req = Idle
    /\ resp = Idle

NextStore ==
    StoreUploadCall \/ SyncCall \/ LoginCall \/ StoreListCall \/ Deliver \/ StoreTick

SpecStore == InitStore /\ [][NextStore]_vars

\* the entries save_invoice wrote: a record kept under its own id
IsInvoiceEntry(e) == IsDict(e.v) /\ "id" \in DOMAIN e.v /\ e.v["id"] = e.k

InvoiceEntries(store) == SelectSeq(store, IsInvoiceEntry)

\* the records of the user among the values of the entries, in the order
\* the entries were written
RecordsOf(entries, u) ==
    LET mine == SelectSeq(entries, LAMBDA e : ~Truthy(u) \/ e.v["userId"] = u)
    IN  [i \in 1..Len(mine) |-> mine[i].v]

\* where the record was written in the store
WrittenAt(store, d) == CHOOSE i \in 1..Len(store) : store[i].v = d

\* C12: after uploads only, list_invoices_for_user(u) returns exactly the
\* stored records of user u (of all users when u is absent), newest first: a
\* record created later never comes after a record created earlier.
C12_ListedNewestFirst ==
    (InvoiceEntries(MEM_STORE) = MEM_STORE) =>
        \A u \in ListedUsers :
            /\ Len(list_invoices_for_user(u)) = Len(RecordsOf(MEM_STORE, u))
            /\ Range(list_invoices_for_user(u)) = Range(RecordsOf(MEM_STORE, u))
            /\ \A i, j \in 1..Len(list_invoices_for_user(u)) :
                   i < j =>
                       ~ ( /\ WrittenAt(MEM_STORE, list_invoices_for_user(u)[i])
                                < WrittenAt(MEM_STORE, list_invoices_for_user(u)[j])
                           /\ list_invoices_for_user(u)[i]["createdAt"]
                                # list_invoices_for_user(u)[j]["createdAt"] )

-----------------------------------------------------------------------------
(* Claims about filter_by_month on lists of records *)

\* the i-th record of the request matches the target through its date or
\* through the month it was created in
EitherSignal(i) ==
    \/ (req.date[i].y = req.y /\ req.date[i].m = req.m)
    \/ (req.created[i].y = req.y /\ req.created[i].m = req.m)

\* the matching records, each once, in the order of the request
MatchingInOrder ==
    LET idx == SelectSeq([i \in 1..Len(req.invs) |-> i], EitherSignal)
    IN  [k \in 1..Len(idx) |-> req.invs[idx[k]]]

\* C13: filter_by_month returns the sub-list, in the order given, of the
\* records that match through their date or through the year and month of
\* createdAt, also when the two disagree; no record is returned twice, even
\* when both match.
C13_EitherSignalOnceInOrder ==
    req.op = "filter_by_month" => resp.ret = MatchingInOrder

\* C13 witness: of two records dated in the target month, the first was also
\* created in it and the second was created a year earlier; both are returned,
\* once each, in the order given
C13_Witness ==
    /\ req.op = "filter_by_month"
    /\ Len(req.invs) = 2
    /\ req.y = 2025 /\ req.m = 8
    /\ req.date[1] = [y |-> 2025, m |-> 8]
    /\ req.created[1] = [y |-> 2025, m |-> 8]
    /\ req.date[2] = [y |-> 2025, m |-> 8]
    /\ req.created[2] = [y |-> 2024, m |-> 8]
    /\ resp.ret = req.invs

-----------------------------------------------------------------------------
(* Claims about the records kept in the store *)

StoreKeys(store) == {store[i].k : i \in 1..Len(store)}

\* the store is the store of before with one record added at the end, under
\* an id no entry had
OneRecordAdded(before, after) ==
    /\ Len(after) = Len(before) + 1
    /\ SubSeq(after, 1, Len(before)) = before
    /\ after[Len(after)].k \notin StoreKeys(before)
    /\ after[Len(after)].v["id"] = after[Len(after)].k

\* C14: stored records are never updated in place: a successful upload adds
\* exactly one record, under an id not used before, and leaves every record
\* stored earlier as it was, id and createdAt included; chat, list and get
\* requests change no stored record.
C14_RecordsNeverUpdated ==
    /\ (req.op = "upload" /\ resp.status = 200) => OneRecordAdded(req.before, MEM_STORE)
    /\ req.op \in {"chat", "list", "get"} => MEM_STORE = req.before

\* C14 witness: the same file was uploaded again by the same user, later, and
\* the store holds both records
C14_Witness ==
    /\ req.op = "upload"
    /\ resp.status = 200
    /\ Len(req.before) = 1
    /\ req.before[1].v["filename"] = resp.body["filename"]
    /\ req.before[1].v["userId"] = resp.body["userId"]
    /\ req.before[1].v["createdAt"] # resp.body["createdAt"]
    /\ Len(MEM_STORE) = 2

-----------------------------------------------------------------------------
(* Claims about profiles and login events in the store *)

\* the records save_invoice wrote
InvoiceRecords(store) ==
    {store[i].v : i \in {k \in 1..Len(store) : IsInvoiceEntry(store[k])}}

\* C15: every element list_invoices_for_user returns, for any user, is a
\* record save_invoice stored; profiles and login events kept in the same
\* store are never returned, so a profile sync or a login leaves the invoice
\* list of every user as it was.
C15_OnlyInvoicesListed ==
    /\ \A u \in ListedUsers :
           Range(list_invoices_for_user(u)) \subseteq InvoiceRecords(MEM_STORE)
    /\ req.op \in {"sync", "login"} =>
           \A u \in ListedUsers :
               list_invoices_for_user(u) = ListFrom(req.before, u)

=============================================================================
